---------------------------- MODULE Spec2Model ----------------------------
(***************************************************************************)
(* Model of the finding classification and prompt-curation pipeline of the *)
(* orchestrator package: filter_false_positives, analyze_prompt and        *)
(* compute_spec_quality_score (orchestrator/pipeline.py), build_guidance   *)
(* and build_curated_prompt (orchestrator/guidance_engine.py),             *)
(* parse_devspec_output and run_dev_spec_kit                               *)
(* (orchestrator/devspec_runner.py).                                       *)
(*                                                                         *)
(* Text.  A prompt is a sequence of lexemes: words, fixed multi-word       *)
(* phrases, and the two whitespace lexemes " " and "\n".  The prompt text  *)
(* is the lexemes joined by single blanks.  Every regular expression of    *)
(* the source is kept as its set of alternatives; an alternative is the    *)
(* sequence of its literal pieces, each later piece separated from the     *)
(* previous one by ".*" or ".{0,n}".  Occurrences gives, for every         *)
(* lower-case lexeme, the character span of every literal piece that       *)
(* occurs inside it, so that a search is decided on character positions    *)
(* and line numbers exactly as re.search decides it ("." does not match a  *)
(* line feed).  The bullet character of the templates is written "*".      *)
(* The output of the scanner is a str, parsed character by character.      *)
(***************************************************************************)
EXTENDS Integers, Sequences, FiniteSets, TLC

(***************************************************************************)
(* Bounds of the explored inputs.                                          *)
(***************************************************************************)
\* number of phrases a prompt is made of
MaxPhrases == 2
\* number of findings the scanner emits in one analysed request
MaxFindings == 3
\* number of findings of one suppressor scenario
MaxFilterInput == 3
\* number of successive runs of the suppressor
MaxPasses == 2
\* number of successive calls of analyze_prompt
MaxCalls == 2
\* longest finding list given to build_guidance directly
MaxGuidanceFindings == 4
\* most items in one category of a scored structure
MaxItems == 2
\* longest warning list given to compute_spec_quality_score
MaxWarnings == 6
\* most blocks and stray lines in one scanner output
MaxBlocks == 3
\* most blocks and stray lines in the output of a scanner run under analyze_prompt
MaxScanBlocks == 2
\* elements of the outputs whose parsing is followed iteration by iteration
MaxLoopBlocks == 2
\* calls of analyze_prompt in progress at the same time
MaxConcurrent == 2

(***************************************************************************)
(* Text: lexemes, lower(), strip(), literal occurrences.                   *)
(***************************************************************************)
Whitespace == {" ", "\n"}

\* str.lower() on one lexeme
Lower(lexeme) ==
    CASE lexeme = "API" -> "api"
      [] lexeme = "BCRYPT" -> "bcrypt"
      [] lexeme = "Build" -> "build"
      [] lexeme = "Kafka" -> "kafka"
      [] lexeme = "Kubernetes" -> "kubernetes"
      [] lexeme = "MongoDB" -> "mongodb"
      [] lexeme = "OAuth" -> "oauth"
      [] lexeme = "PostgreSQL" -> "postgresql"
      [] lexeme = "REST" -> "rest"
      [] lexeme = "Secrets" -> "secrets"
      [] OTHER -> lexeme

\* lower() left out: the text as it is
lower_left_out(text) == text

\* str.lower() on a text
lower(text) == [i \in DOMAIN text |-> Lower(text[i])]

\* str.strip(): leading and trailing whitespace removed
RECURSIVE lstrip(_)
lstrip(text) ==
    IF text # <<>> /\ Head(text) \in Whitespace THEN lstrip(Tail(text)) ELSE text

RECURSIVE rstrip(_)
rstrip(text) ==
    IF text # <<>> /\ text[Len(text)] \in Whitespace
    THEN rstrip(SubSeq(text, 1, Len(text) - 1))
    ELSE text

strip(text) == rstrip(lstrip(text))

\* the literal pieces occurring inside a lower-case lexeme: <<literal, first
\* character, one past the last character>>.  "env var" stands for 'env vars?',
\* ".env file" for '\.env\s*file', "<quote>" for '["\']', "<quoted word>" for
\* '["\']\w+["\']', "store <jwt|token> <in|to> <file|json>" for
\* 'store (jwt|token) (in|to) (file|json)' (likewise save).
Occurrences(lexeme) ==
    CASE lexeme = "'abc123'" ->
           {<<"<quote>", 0, 1>>, <<"<quote>", 7, 8>>, <<"<quoted word>", 0, 8>>}
      [] lexeme = "=" ->
           {<<"=", 0, 1>>}
      [] lexeme = "anywhere" ->
           {<<"anywhere", 0, 8>>}
      [] lexeme = "auth" ->
           {<<"auth", 0, 4>>}
      [] lexeme = "authentication" ->
           {<<"auth", 0, 4>>}
      [] lexeme = "authorization" ->
           {<<"auth", 0, 4>>}
      [] lexeme = "automated test" ->
           {<<"test", 10, 14>>}
      [] lexeme = "bcrypt" ->
           {<<"bcrypt", 0, 6>>}
      [] lexeme = "checksum" ->
           {<<"checksum", 0, 8>>}
      [] lexeme = "code" ->
           {<<"code", 0, 4>>}
      [] lexeme = "connection string" ->
           {<<"connection", 0, 10>>}
      [] lexeme = "cover" ->
           {<<"cover", 0, 5>>}
      [] lexeme = "database" ->
           {<<"data", 0, 4>>}
      [] lexeme = "database url" ->
           {<<"data", 0, 4>>}
      [] lexeme = "debug" ->
           {<<"debug", 0, 5>>}
      [] lexeme = "diagnostic" ->
           {<<"diagnostic", 0, 10>>, <<"no", 4, 6>>}
      [] lexeme = "do not" ->
           {<<"do not", 0, 6>>, <<"no", 3, 5>>, <<"not", 3, 6>>}
      [] lexeme = "do not include" ->
           {<<"do not", 0, 6>>, <<"do not include", 0, 14>>, <<"no", 3, 5>>, <<"not", 3, 6>>}
      [] lexeme = "e2e test" ->
           {<<"test", 4, 8>>}
      [] lexeme = "edge case" ->
           {<<"edge case", 0, 9>>}
      [] lexeme = "endpoint" ->
           {<<"endpoint", 0, 8>>}
      [] lexeme = "environment variables" ->
           {<<"environment", 0, 11>>, <<"environment variables", 0, 21>>}
      [] lexeme = "error handling" ->
           {<<"error handling", 0, 14>>}
      [] lexeme = "file id" ->
           {<<"file", 0, 4>>, <<"file id", 0, 7>>, <<"id", 5, 7>>}
      [] lexeme = "from" ->
           {<<"from", 0, 4>>}
      [] lexeme = "handle" ->
           {<<"handle", 0, 6>>}
      [] lexeme = "hardcoded" ->
           {<<"code", 4, 8>>, <<"hardcode", 0, 8>>, <<"hardcoded", 0, 9>>}
      [] lexeme = "hashed" ->
           {<<"hash", 0, 4>>}
      [] lexeme = "implement it." ->
           {<<"implement", 0, 9>>}
      [] lexeme = "implement password reset." ->
           {<<"implement", 0, 9>>, <<"password", 10, 18>>}
      [] lexeme = "input validation" ->
           {<<"id", 9, 11>>, <<"input", 0, 5>>, <<"input validation", 0, 16>>,
            <<"validation", 6, 16>>}
      [] lexeme = "integration test" ->
           {<<"test", 12, 16>>}
      [] lexeme = "internal" ->
           {<<"internal", 0, 8>>}
      [] lexeme = "json web token" ->
           {<<"json", 0, 4>>, <<"token", 9, 14>>}
      [] lexeme = "jwt" ->
           {<<"jwt", 0, 3>>}
      [] lexeme = "jwt secret" ->
           {<<"jwt", 0, 3>>, <<"secret", 4, 10>>}
      [] lexeme = "kafka" ->
           {<<"kafka", 0, 5>>}
      [] lexeme = "kubernetes" ->
           {<<"kubernetes", 0, 10>>}
      [] lexeme = "log request method" ->
           {<<"log request method", 0, 18>>, <<"method", 12, 18>>}
      [] lexeme = "login" ->
           {<<"login", 0, 5>>}
      [] lexeme = "md5" ->
           {<<"md5", 0, 3>>}
      [] lexeme = "mongodb" ->
           {<<"mongodb", 0, 7>>}
      [] lexeme = "never" ->
           {<<"never", 0, 5>>}
      [] lexeme = "not related to" ->
           {<<"no", 0, 2>>, <<"not", 0, 3>>, <<"not related to", 0, 14>>}
      [] lexeme = "oauth" ->
           {<<"auth", 1, 5>>, <<"oauth", 0, 5>>}
      [] lexeme = "oauth2" ->
           {<<"auth", 1, 5>>, <<"oauth", 0, 5>>}
      [] lexeme = "password" ->
           {<<"password", 0, 8>>}
      [] lexeme = "passwords" ->
           {<<"password", 0, 8>>}
      [] lexeme = "path" ->
           {<<"path", 0, 4>>}
      [] lexeme = "postgresql" ->
           {<<"postgresql", 0, 10>>}
      [] lexeme = "profile" ->
           {<<"file", 3, 7>>, <<"profile", 0, 7>>}
      [] lexeme = "profile json" ->
           {<<"file", 3, 7>>, <<"json", 8, 12>>, <<"profile", 0, 7>>, <<"profile json", 0, 12>>}
      [] lexeme = "returns" ->
           {<<"returns", 0, 7>>}
      [] lexeme = "secrets" ->
           {<<"secret", 0, 6>>}
      [] lexeme = "service" ->
           {<<"service", 0, 7>>}
      [] lexeme = "session" ->
           {<<"session", 0, 7>>}
      [] lexeme = "sessions" ->
           {<<"session", 0, 7>>}
      [] lexeme = "should not" ->
           {<<"no", 7, 9>>, <<"not", 7, 10>>, <<"should not", 0, 10>>}
      [] lexeme = "should not return" ->
           {<<"no", 7, 9>>, <<"not", 7, 10>>, <<"should not", 0, 10>>,
            <<"should not return", 0, 17>>}
      [] lexeme = "skip" ->
           {<<"skip", 0, 4>>}
      [] lexeme = "sso" ->
           {<<"sso", 0, 3>>}
      [] lexeme = "status" ->
           {<<"status", 0, 6>>}
      [] lexeme = "storage" ->
           {<<"storage", 0, 7>>}
      [] lexeme = "store jwt in file" ->
           {<<"file", 13, 17>>, <<"jwt", 6, 9>>, <<"store", 0, 5>>,
            <<"store <jwt|token> <in|to> <file|json>", 0, 17>>}
      [] lexeme = "test coverage" ->
           {<<"cover", 5, 10>>, <<"test", 0, 4>>}
      [] lexeme = "test plan" ->
           {<<"test", 0, 4>>}
      [] lexeme = "test suite that covers" ->
           {<<"cover", 16, 21>>, <<"test", 0, 4>>, <<"test suite that covers", 0, 22>>}
      [] lexeme = "tests" ->
           {<<"test", 0, 4>>}
      [] lexeme = "token" ->
           {<<"token", 0, 5>>}
      [] lexeme = "unit test" ->
           {<<"test", 5, 9>>}
      [] lexeme = "use" ->
           {<<"use", 0, 3>>}
      [] lexeme = "user" ->
           {<<"use", 0, 3>>, <<"user", 0, 4>>}
      [] lexeme = "validation" ->
           {<<"id", 3, 5>>, <<"validation", 0, 10>>}
      [] OTHER -> {}

\* character offset of lexeme i in the joined text
RECURSIVE Offset(_, _)
Offset(text, i) == IF i = 1 THEN 0 ELSE Offset(text, i - 1) + Len(text[i - 1]) + 1

\* line number of lexeme i
LineOf(text, i) == Cardinality({k \in 1..(i - 1) : text[k] = "\n"})

\* every literal occurrence of a text: <<literal, line, first, past-last>>
TextOccurrences(text) ==
    UNION { { <<o[1], LineOf(text, i), Offset(text, i) + o[2], Offset(text, i) + o[3]>> :
              o \in Occurrences(text[i]) } : i \in DOMAIN text }

(***************************************************************************)
(* Regular expressions: alternatives of literal pieces.                    *)
(***************************************************************************)
\* first piece of an alternative
Lit(lits) == [bounded |-> FALSE, gap |-> 0, lits |-> lits]
\* a piece after ".*"
Then(lits) == [bounded |-> FALSE, gap |-> 0, lits |-> lits]
\* a piece after ".{0,n}"
Within(n, lits) == [bounded |-> TRUE, gap |-> n, lits |-> lits]

\* pieces k.. of an alternative match after occurrence prev: same line, not
\* overlapping, at most the allowed number of characters in between
RECURSIVE ChainFrom(_, _, _, _)
ChainFrom(occ, alternative, k, prev) ==
    IF k > Len(alternative) THEN TRUE
    ELSE \E o \in occ :
            /\ o[1] \in alternative[k].lits
            /\ o[2] = prev[2]
            /\ o[3] >= prev[4]
            /\ (alternative[k].bounded => o[3] - prev[4] <= alternative[k].gap)
            /\ ChainFrom(occ, alternative, k + 1, o)

\* bool(re.search(regex, text)) on the occurrences of the text
re_search(regex, occ) ==
    \E alternative \in regex :
        \E o \in occ : o[1] \in alternative[1].lits /\ ChainFrom(occ, alternative, 2, o)

\* r'environment variables|env vars?|\.env\s*file'
re_env_vars_mention ==
    { <<Lit({"environment variables", "env var", ".env file"})>> }

\* r'never.*code|not.*checked.*into|config.*not.*source|do not include|loaded strictly from'
re_env_vars_policy ==
    { <<Lit({"never"}), Then({"code"})>>,
      <<Lit({"not"}), Then({"checked"}), Then({"into"})>>,
      <<Lit({"config"}), Then({"not"}), Then({"source"})>>,
      <<Lit({"do not include", "loaded strictly from"})>> }

\* r'hash.*bcrypt|bcrypt|argon2|pbkdf2|scrypt'
re_hashing ==
    { <<Lit({"hash"}), Then({"bcrypt"})>>,
      <<Lit({"bcrypt", "argon2", "pbkdf2", "scrypt"})>> }

\* r'https|tls|ssl|secure.*connection'
re_https ==
    { <<Lit({"https", "tls", "ssl"})>>,
      <<Lit({"secure"}), Then({"connection"})>> }

\* r'input validation|validate.*input|pydantic|sanitize'
re_validation ==
    { <<Lit({"input validation", "pydantic", "sanitize"})>>,
      <<Lit({"validate"}), Then({"input"})>> }

\* r'prepared statement|parameterized.*quer|orm|parameter binding'
re_prepared_statements ==
    { <<Lit({"prepared statement", "orm", "parameter binding"})>>,
      <<Lit({"parameterized"}), Then({"quer"})>> }

\* r'never.*plain.*text.*password|hash.*password'
re_no_plaintext_passwords ==
    { <<Lit({"never"}), Then({"plain"}), Then({"text"}), Then({"password"})>>,
      <<Lit({"hash"}), Then({"password"})>> }

\* r'do not.*debug|never.*debug.*endpoint|no debug endpoint'
re_no_debug_endpoints ==
    { <<Lit({"do not"}), Then({"debug"})>>,
      <<Lit({"never"}), Then({"debug"}), Then({"endpoint"})>>,
      <<Lit({"no debug endpoint"})>> }

\* r'do not include.*(password|secret)|no.*(password|secret).*anywhere'
re_no_passwords_anywhere ==
    { <<Lit({"do not include"}), Then({"password", "secret"})>>,
      <<Lit({"no"}), Then({"password", "secret"}), Then({"anywhere"})>> }

\* r'md5.*(checksum|duplicate|simple|lightweight)|md5.*not.*password|md5.*not.*auth|md5.*not.*token'
re_md5_for_checksums ==
    { <<Lit({"md5"}), Then({"checksum", "duplicate", "simple", "lightweight"})>>,
      <<Lit({"md5"}), Then({"not"}), Then({"password"})>>,
      <<Lit({"md5"}), Then({"not"}), Then({"auth"})>>,
      <<Lit({"md5"}), Then({"not"}), Then({"token"})>> }

\* r'(do not|don\'t|never|must not).*expose.*(debug|environment|config)'
re_negated_expose ==
    { <<Lit({"do not", "don't", "never", "must not"}), Then({"expose"}),
         Then({"debug", "environment", "config"})>> }

\* r'but (do )?not.*debug.*endpoint'
re_but_not_debug ==
    { <<Lit({"but not", "but do not"}), Then({"debug"}), Then({"endpoint"})>> }

\* r'skip.*validation|without.*validation|no.*validation'
re_validation_skipped ==
    { <<Lit({"skip", "without", "no"}), Then({"validation"})>> }

\* r'use.*["\']\w+["\']|hardcode.*["\']\w+["\']|secret.*=.*["\']'
re_recommends_hardcoding ==
    { <<Lit({"use", "hardcode"}), Then({"<quoted word>"})>>,
      <<Lit({"secret"}), Then({"="}), Then({"<quote>"})>> }

\* r'(none|should not|must not).*(be )?hardcoded'
re_says_not_hardcoded ==
    { <<Lit({"none", "should not", "must not"}), Then({"hardcoded"})>> }

\* r'not related to.*(token|jwt)|this is not.*(token|jwt)'
re_not_about_tokens ==
    { <<Lit({"not related to", "this is not"}), Then({"token", "jwt"})>> }

\* r'store (jwt|token) (in|to) (file|json)|save (jwt|token) (in|to) (file|json)'
re_actually_stores_tokens ==
    { <<Lit({"store <jwt|token> <in|to> <file|json>", "save <jwt|token> <in|to> <file|json>"})>> }

\* r'profile json|user.*json|data.*json'
re_json_is_profile_data ==
    { <<Lit({"profile json"})>>,
      <<Lit({"user", "data"}), Then({"json"})>> }

\* r'store.{0,20}jwt|jwt.{0,20}(file|storage)'
re_stores_jwt ==
    { <<Lit({"store"}), Within(20, {"jwt"})>>,
      <<Lit({"jwt"}), Within(20, {"file", "storage"})>> }

\* r'(debug|diagnostic).*should not return.*(secret|sensitive|environment)'
re_debug_returns_no_secrets ==
    { <<Lit({"debug", "diagnostic"}), Then({"should not return"}),
         Then({"secret", "sensitive", "environment"})>> }

\* r'(debug|diagnostic).*endpoint.*returns.*(file id|processing id|update id|last.*id|numerical id)'
re_debug_returns_ids ==
    { <<Lit({"debug", "diagnostic"}), Then({"endpoint"}), Then({"returns"}),
         Then({"file id", "processing id", "update id", "numerical id"})>>,
      <<Lit({"debug", "diagnostic"}), Then({"endpoint"}), Then({"returns"}), Then({"last"}),
         Then({"id"})>> }

\* r'implement.*auth|login.*endpoint|auth.*flow|session.*management|jwt|oauth|sso'
re_has_auth_implementation ==
    { <<Lit({"implement"}), Then({"auth"})>>,
      <<Lit({"login"}), Then({"endpoint"})>>,
      <<Lit({"auth"}), Then({"flow"})>>,
      <<Lit({"session"}), Then({"management"})>>,
      <<Lit({"jwt", "oauth", "sso"})>> }

\* r'do not include.*password|no.*password.*anywhere'
re_only_negative_mentions ==
    { <<Lit({"do not include"}), Then({"password"})>>,
      <<Lit({"no"}), Then({"password"}), Then({"anywhere"})>> }

\* r'skip.*auth|no.*auth.*needed|without.*auth|assume.*trusted'
re_suggests_skip_auth ==
    { <<Lit({"skip", "without"}), Then({"auth"})>>,
      <<Lit({"no"}), Then({"auth"}), Then({"needed"})>>,
      <<Lit({"assume"}), Then({"trusted"})>> }

\* r'internal.*service|internal.*tool|receives.*from.*microservice'
re_describes_internal_boundaries ==
    { <<Lit({"internal"}), Then({"service", "tool"})>>,
      <<Lit({"receives"}), Then({"from"}), Then({"microservice"})>> }

\* r'test suite that covers|comprehensive test|test.*cover.*(login|token|profile)'
re_detailed_test_suite ==
    { <<Lit({"test suite that covers", "comprehensive test"})>>,
      <<Lit({"test"}), Then({"cover"}), Then({"login", "token", "profile"})>> }

\* r'log request method.*path.*status|logging includes.*method.*path|error logging with request'
re_detailed_logging ==
    { <<Lit({"log request method"}), Then({"path"}), Then({"status"})>>,
      <<Lit({"logging includes"}), Then({"method"}), Then({"path"})>>,
      <<Lit({"error logging with request"})>> }

\* r'error handling|handle.*edge case'
re_error_handling ==
    { <<Lit({"error handling"})>>,
      <<Lit({"handle"}), Then({"edge case"})>> }

(***************************************************************************)
(* filter_false_positives (orchestrator/pipeline.py).                      *)
(***************************************************************************)
\* the profile of security best practices mentioned in the prompt
has_secure_patterns(occ) ==
    [ env_vars |-> re_search(re_env_vars_mention, occ) /\ re_search(re_env_vars_policy, occ),
      hashing |-> re_search(re_hashing, occ),
      https |-> re_search(re_https, occ),
      validation |-> re_search(re_validation, occ),
      prepared_statements |-> re_search(re_prepared_statements, occ),
      no_plaintext_passwords |-> re_search(re_no_plaintext_passwords, occ),
      no_debug_endpoints |-> re_search(re_no_debug_endpoints, occ),
      no_passwords_anywhere |-> re_search(re_no_passwords_anywhere, occ),
      md5_for_checksums |-> re_search(re_md5_for_checksums, occ) ]

\* whether the finding code's keywords appear in a negation context
has_negation_context(code, patterns, occ) ==
    IF code = "SEC_DEBUG_EXPOSES_SECRETS"
    THEN re_search(re_negated_expose, occ) \/ re_search(re_but_not_debug, occ)
    ELSE IF code = "SEC_MISSING_INPUT_VALIDATION"
    THEN IF patterns.validation THEN ~re_search(re_validation_skipped, occ) ELSE FALSE
    ELSE FALSE

\* should_remove that never removes a BLOCKER
should_remove_unless_blocker(finding, patterns, occ) ==
    /\ finding.severity # "BLOCKER"
    /\ \/ /\ finding.code = "SEC_HARDCODED_SECRET"
          /\ IF patterns.env_vars
             THEN ~re_search(re_recommends_hardcoding, occ)
             ELSE re_search(re_says_not_hardcoded, occ)
       \/ /\ finding.code = "SEC_INSECURE_JWT_STORAGE"
          /\ IF re_search(re_not_about_tokens, occ) THEN TRUE
             ELSE IF patterns.env_vars THEN ~re_search(re_actually_stores_tokens, occ)
             ELSE IF re_search(re_json_is_profile_data, occ) THEN ~re_search(re_stores_jwt, occ)
             ELSE FALSE
       \/ /\ finding.code = "SEC_PLAINTEXT_PASSWORDS"
          /\ (patterns.hashing \/ patterns.no_passwords_anywhere)
       \/ /\ finding.code = "SEC_DEBUG_EXPOSES_SECRETS"
          /\ \/ patterns.no_debug_endpoints
             \/ re_search(re_debug_returns_no_secrets, occ)
             \/ re_search(re_debug_returns_ids, occ)
       \/ /\ finding.code = "SEC_MISSING_INPUT_VALIDATION"
          /\ has_negation_context(finding.code, patterns, occ)
       \/ /\ finding.code = "SEC_WEAK_HASH_MD5"
          /\ patterns.md5_for_checksums
       \/ /\ finding.code = "SEC_NO_TLS_FOR_AUTH"
          /\ (~re_search(re_has_auth_implementation, occ) \/ re_search(re_only_negative_mentions, occ))
       \/ /\ finding.code = "SEC_NO_AUTH_INTERNAL"
          /\ re_search(re_describes_internal_boundaries, occ)
          /\ ~re_search(re_suggests_skip_auth, occ)

\* should_remove matching the debug rule by the prefix of the code
should_remove_by_prefix(finding, patterns, occ) ==
    \/ /\ finding.code = "SEC_HARDCODED_SECRET"
       /\ IF patterns.env_vars
          THEN ~re_search(re_recommends_hardcoding, occ)
          ELSE re_search(re_says_not_hardcoded, occ)
    \/ /\ finding.code = "SEC_INSECURE_JWT_STORAGE"
       /\ IF re_search(re_not_about_tokens, occ) THEN TRUE
          ELSE IF patterns.env_vars THEN ~re_search(re_actually_stores_tokens, occ)
          ELSE IF re_search(re_json_is_profile_data, occ) THEN ~re_search(re_stores_jwt, occ)
          ELSE FALSE
    \/ /\ finding.code = "SEC_PLAINTEXT_PASSWORDS"
       /\ (patterns.hashing \/ patterns.no_passwords_anywhere)
    \/ /\ SubSeq(finding.code, 1, 17) = "SEC_DEBUG_EXPOSES"
       /\ \/ patterns.no_debug_endpoints
          \/ re_search(re_debug_returns_no_secrets, occ)
          \/ re_search(re_debug_returns_ids, occ)
    \/ /\ finding.code = "SEC_MISSING_INPUT_VALIDATION"
       /\ has_negation_context(finding.code, patterns, occ)
    \/ /\ finding.code = "SEC_WEAK_HASH_MD5"
       /\ patterns.md5_for_checksums
    \/ /\ finding.code = "SEC_NO_TLS_FOR_AUTH"
       /\ (~re_search(re_has_auth_implementation, occ) \/ re_search(re_only_negative_mentions, occ))
    \/ /\ finding.code = "SEC_NO_AUTH_INTERNAL"
       /\ re_search(re_describes_internal_boundaries, occ)
       /\ ~re_search(re_suggests_skip_auth, occ)

\* the value of should_remove at the end of one iteration of the loop
should_remove(finding, patterns, occ) ==
    \/ /\ finding.code = "SEC_HARDCODED_SECRET"
       /\ IF patterns.env_vars
          THEN ~re_search(re_recommends_hardcoding, occ)
          ELSE re_search(re_says_not_hardcoded, occ)
    \/ /\ finding.code = "SEC_INSECURE_JWT_STORAGE"
       /\ IF re_search(re_not_about_tokens, occ) THEN TRUE
          ELSE IF patterns.env_vars THEN ~re_search(re_actually_stores_tokens, occ)
          ELSE IF re_search(re_json_is_profile_data, occ) THEN ~re_search(re_stores_jwt, occ)
          ELSE FALSE
    \/ /\ finding.code = "SEC_PLAINTEXT_PASSWORDS"
       /\ (patterns.hashing \/ patterns.no_passwords_anywhere)
    \/ /\ finding.code = "SEC_DEBUG_EXPOSES_SECRETS"
       /\ \/ patterns.no_debug_endpoints
          \/ re_search(re_debug_returns_no_secrets, occ)
          \/ re_search(re_debug_returns_ids, occ)
    \/ /\ finding.code = "SEC_MISSING_INPUT_VALIDATION"
       /\ has_negation_context(finding.code, patterns, occ)
    \/ /\ finding.code = "SEC_WEAK_HASH_MD5"
       /\ patterns.md5_for_checksums
    \/ /\ finding.code = "SEC_NO_TLS_FOR_AUTH"
       /\ (~re_search(re_has_auth_implementation, occ) \/ re_search(re_only_negative_mentions, occ))
    \/ /\ finding.code = "SEC_NO_AUTH_INTERNAL"
       /\ re_search(re_describes_internal_boundaries, occ)
       /\ ~re_search(re_suggests_skip_auth, occ)

\* the loop removing from the list it iterates over: the finding after a
\* removed one is skipped
RECURSIVE filter_loop_skipping(_, _, _)
filter_loop_skipping(findings, patterns, occ) ==
    IF findings = <<>> THEN <<>>
    ELSE IF should_remove(Head(findings), patterns, occ)
         THEN IF Tail(findings) = <<>> THEN <<>>
              ELSE <<Head(Tail(findings))>> \o filter_loop_skipping(Tail(Tail(findings)), patterns, occ)
         ELSE <<Head(findings)>> \o filter_loop_skipping(Tail(findings), patterns, occ)

\* the loop inserting the kept findings at the front
RECURSIVE filter_loop_prepending(_, _, _)
filter_loop_prepending(findings, patterns, occ) ==
    IF findings = <<>> THEN <<>>
    ELSE IF should_remove(Head(findings), patterns, occ)
         THEN filter_loop_prepending(Tail(findings), patterns, occ)
         ELSE filter_loop_prepending(Tail(findings), patterns, occ) \o <<Head(findings)>>

\* the loop over the findings: keeps, in order, those not to be removed
RECURSIVE filter_loop(_, _, _)
filter_loop(findings, patterns, occ) ==
    IF findings = <<>> THEN <<>>
    ELSE IF should_remove(Head(findings), patterns, occ)
         THEN filter_loop(Tail(findings), patterns, occ)
         ELSE <<Head(findings)>> \o filter_loop(Tail(findings), patterns, occ)

filter_false_positives(prompt, findings) ==
    LET prompt_lower == lower(prompt)
        occ == TextOccurrences(prompt_lower)
        patterns == has_secure_patterns(occ)
    IN  filter_loop(findings, patterns, occ)

(***************************************************************************)
(* Inputs: the phrase book of the prompts and the scanner's findings.      *)
(***************************************************************************)
\* the phrases prompts are made of
Phrase(name) ==
    CASE name = "Blank" -> <<" ">>
      [] name = "LineFeed" -> <<"\n">>
      [] name = "EnvVars" -> <<"Secrets", "from", "environment variables">>
      [] name = "NeverCode" -> <<"never", "in", "code">>
      [] name = "UseQuoted" -> <<"use", "'abc123'">>
      [] name = "Assign" -> <<"=", "'abc123'">>
      [] name = "NotHardcoded" -> <<"should not", "be", "hardcoded">>
      [] name = "Hashed" -> <<"passwords", "hashed", "with", "BCRYPT">>
      [] name = "NoPasswords" -> <<"do not include", "passwords">>
      [] name = "Anywhere" -> <<"anywhere">>
      [] name = "NoDebug" -> <<"do not", "add", "debug", "endpoint">>
      [] name = "DebugNoSecret" -> <<"diagnostic", "should not return", "secrets">>
      [] name = "DebugIds" -> <<"debug", "endpoint", "returns", "file id">>
      [] name = "Validate" -> <<"input validation", "required">>
      [] name = "SkipValidate" -> <<"skip", "validation">>
      [] name = "Md5Checksum" -> <<"md5", "checksum">>
      [] name = "Md5Password" -> <<"md5", "for", "password">>
      [] name = "Login" -> <<"login", "endpoint">>
      [] name = "Internal" -> <<"internal", "service">>
      [] name = "SkipAuth" -> <<"skip", "auth">>
      [] name = "NotTokens" -> <<"not related to", "token">>
      [] name = "StoreJwt" -> <<"store jwt in file">>
      [] name = "UserJson" -> <<"user", "profile json">>
      [] name = "Jwt" -> <<"jwt">>
      [] name = "Storage" -> <<"storage">>
      [] name = "Rest" -> <<"Build", "a", "REST", "API">>
      [] name = "Databases" -> <<"PostgreSQL", "and", "MongoDB">>
      [] name = "Messaging" -> <<"Kafka", "on", "Kubernetes">>
      [] name = "OAuth" -> <<"OAuth">>
      [] name = "TestSuite" -> <<"test suite that covers", "login">>
      [] name = "TestsCover" -> <<"tests", "cover", "the", "profile">>
      [] name = "RequestLog" -> <<"log request method", "path", "status">>
      [] name = "ErrorHandling" -> <<"error handling">>
      [] name = "EdgeCases" -> <<"handle", "every", "edge case">>
      [] name = "EntitiesA" -> <<"user", "admin", "account", "session", "token", "profile">>
      [] name = "EntitiesB" -> <<"dashboard", "api", "endpoint", "database", "table", "model.">>
      [] name = "Flows" -> <<"logout", "login", "register">>
      [] name = "Logging" -> <<"logging", "observability", "monitoring", "metrics", "telemetry", "audit log">>
      [] name = "Testing" -> <<"test plan", "unit test", "integration test", "e2e test", "test coverage", "automated test">>
      [] name = "Errors" -> <<"error handling", "exception handling", "fallback", "retry", "graceful degradation", "error response">>
      [] name = "Auth" -> <<"OAuth", "oauth2", "jwt", "json web token", "sessions", "authentication", "authorization", "sso", "single sign-on", "role-based", "rbac">>
      [] name = "Config" -> <<"jwt secret", "api key", "database url", "connection string", ".env", "secrets", "credentials", "keys">>
      [] name = "Features" -> <<"implement password reset.", "add a search box.", "implement it.">>

\* the text made of a sequence of phrases
RECURSIVE Compose(_)
Compose(names) == IF names = <<>> THEN <<>> ELSE Phrase(Head(names)) \o Compose(Tail(names))

\* sequences of at most n elements of S
SeqsUpTo(S, n) == UNION { [1..k -> S] : k \in 0..n }

\* the prompts made of at most MaxPhrases of the given phrases
PromptsOf(names) == { Compose(ns) : ns \in SeqsUpTo(names, MaxPhrases) }

CategoryOf(code) ==
    IF SubSeq(code, 1, 4) = "SEC_" THEN "SECURITY"
    ELSE IF SubSeq(code, 1, 5) = "ARCH_" THEN "ARCH" ELSE "QUALITY"

\* a DevSpecFinding
Finding(severity, code, message) ==
    [category |-> CategoryOf(code), severity |-> severity, code |-> code,
     message |-> message, suggestion |-> "Fix " \o code]

(***************************************************************************)
(* Strings: substring test, code-point order, sorted().                    *)
(***************************************************************************)
\* sub in s
Contains(s, sub) ==
    \E i \in 1..(Len(s) - Len(sub) + 1) : SubSeq(s, i, i + Len(sub) - 1) = sub

\* s.startswith(prefix)
startswith(s, prefix) == Len(s) >= Len(prefix) /\ SubSeq(s, 1, Len(prefix)) = prefix

\* the printable ASCII characters (but the grave accent) in code-point order
Ascii ==
    " !\"#$%&'()*+,-./0123456789:;<=>?@ABCDEFGHIJKLMNOPQRSTUVWXYZ[\\]^_abcdefghijklmnopqrstuvwxyz{|}~"

\* rank of the i-th character of s in code-point order
CodePoint(s, i) == CHOOSE k \in 1..Len(Ascii) : SubSeq(Ascii, k, k) = SubSeq(s, i, i)

\* a < b for str
RECURSIVE StrLessFrom(_, _, _)
StrLessFrom(a, b, i) ==
    IF i > Len(b) THEN FALSE
    ELSE IF i > Len(a) THEN TRUE
    ELSE IF SubSeq(a, i, i) = SubSeq(b, i, i) THEN StrLessFrom(a, b, i + 1)
    ELSE CodePoint(a, i) < CodePoint(b, i)

StrLess(a, b) == StrLessFrom(a, b, 1)

\* sorted(list(S)) for a set of str
RECURSIVE sorted(_)
sorted(S) ==
    IF S = {} THEN <<>>
    ELSE LET least == CHOOSE x \in S : \A y \in S \ {x} : StrLess(x, y)
         IN  <<least>> \o sorted(S \ {least})

(***************************************************************************)
(* build_guidance and build_curated_prompt                                 *)
(* (orchestrator/guidance_engine.py).                                      *)
(***************************************************************************)
\* str.upper() on a severity
upper(severity) ==
    CASE severity = "blocker" -> "BLOCKER"
      [] severity = "error" -> "ERROR"
      [] severity = "warning" -> "WARNING"
      [] severity = "info" -> "INFO"
      [] OTHER -> severity

\* [f for f in findings if f.severity.upper() == severity]
BySeverity(findings, severity) == SelectSeq(findings, LAMBDA f : upper(f.severity) = severity)

GuidanceItem(title, detail) == [title |-> title, detail |-> detail]

\* the constraints one finding code adds
ConstraintsFor(code) ==
    (IF Contains(code, "UNAUTH") \/ Contains(code, "NO_AUTH")
     THEN {"Require proper authentication and authorization for all endpoints"} ELSE {})
    \cup
    (IF Contains(code, "TLS") \/ Contains(code, "HTTPS") \/ Contains(code, "HTTP")
     THEN {"Use HTTPS/TLS for all network communication, especially authentication flows"}
     ELSE {})
    \cup
    (IF Contains(code, "SECRET") \/ Contains(code, "HARDCODED")
     THEN {"Never hardcode secrets, tokens, or credentials in code or config files",
           "Use environment variables or secure secret management systems"} ELSE {})
    \cup
    (IF Contains(code, "PASSWORD") /\ Contains(code, "PLAINTEXT")
     THEN {"Never store passwords in plain text; use bcrypt, Argon2, or PBKDF2 for password hashing"}
     ELSE {})
    \cup
    (IF Contains(code, "ADMIN") \/ Contains(code, "BACKDOOR")
     THEN {"Never auto-create admin accounts or backdoors",
           "Implement secure admin account creation with strong authentication"} ELSE {})
    \cup
    (IF Contains(code, "DB_WIPE") \/ Contains(code, "DROP")
     THEN {"Never automatically wipe or recreate production data",
           "Require explicit admin action for destructive operations"} ELSE {})
    \cup
    (IF Contains(code, "TMP")
     THEN {"Store uploads in secure, persistent locations, not temporary directories"} ELSE {})
    \cup
    (IF Contains(code, "STACKTRACE") \/ Contains(code, "DEBUG")
     THEN {"Never expose stack traces, debug info, or environment variables to clients",
           "Log sensitive errors securely on the server side only"} ELSE {})
    \cup
    (IF Contains(code, "DOCKER") /\ Contains(code, "ROOT")
     THEN {"Run Docker containers as non-root users for security"} ELSE {})
    \cup
    (IF Contains(code, "VALIDATION") \/ Contains(code, "SKIP")
     THEN {"Implement strict input validation on all external inputs"} ELSE {})
    \cup
    (IF Contains(code, "MD5") \/ Contains(code, "WEAK_HASH")
     THEN {"Use strong hashing algorithms (SHA-256 or better) instead of MD5 or SHA-1"} ELSE {})
    \cup
    (IF Contains(code, "GET") /\ Contains(code, "AUTH")
     THEN {"Use POST requests for authentication, not GET (to avoid credentials in URLs/logs)"}
     ELSE {})
    \cup
    (IF Contains(code, "FINANCIAL") \/ Contains(code, "BALANCE") \/ Contains(code, "PAYMENT")
     THEN {"Implement strict authentication and authorization for all financial operations",
           "Validate and audit all balance adjustments and transactions"} ELSE {})
    \cup
    (IF Contains(code, "PHI") \/ Contains(code, "PATIENT")
     THEN {"Encrypt all Protected Health Information (PHI) at rest and in transit",
           "Implement HIPAA-compliant access controls"} ELSE {})

\* Constraints collected at every risk level
Constraints_AnyRisk(findings, risk_level) ==
    UNION { ConstraintsFor(findings[i].code) : i \in DOMAIN findings }

\* the set of constraints build_guidance collects
Constraints(findings, risk_level) ==
    IF risk_level \in {"Medium", "High"}
    THEN UNION { ConstraintsFor(findings[i].code) : i \in DOMAIN findings }
    ELSE {}

\* the guidance items the loop over the findings appends (architecture warnings)
RECURSIVE ArchGuidance(_)
ArchGuidance(findings) ==
    IF findings = <<>> THEN <<>>
    ELSE LET code == Head(findings).code
         IN  (IF Contains(code, "ARCH_") /\ (Contains(code, "CONFLICTING") \/ Contains(code, "VAGUE"))
              THEN <<GuidanceItem("Clarify Technology Stack",
                        "Choose a single, consistent technology stack. Avoid mixing incompatible frameworks.")>>
              ELSE <<>>)
             \o ArchGuidance(Tail(findings))

\* "\n".join(notes) as text pieces, one line each
Bullets(findings, withCode, indent) ==
    [i \in DOMAIN findings |->
        indent \o "* " \o (IF withCode THEN findings[i].code \o ": " ELSE "") \o findings[i].message]

\* the section every template starts with: blank line, rule
Rule == <<"\n", "\n", "---", "\n">>

\* build_curated_prompt given the lower-cased prompt
build_curated_prompt_lowered(original_prompt, constraints, risk_level, findings) ==
    lower(original_prompt) \o Rule \o <<"SECURITY ANALYSIS: " \o risk_level \o " Risk">>

\* build_curated_prompt trying the template of the errors before the one of
\* the three warnings
build_curated_prompt_errors_first(original_prompt, constraints, risk_level, findings) ==
    LET blockers == BySeverity(findings, "BLOCKER")
        errors == BySeverity(findings, "ERROR")
        warnings == BySeverity(findings, "WARNING")
        quality_warnings == SelectSeq(warnings, LAMBDA w : startswith(w.code, "QUAL_"))
        security_warnings == SelectSeq(warnings, LAMBDA w : startswith(w.code, "SEC_"))
        arch_warnings == SelectSeq(warnings, LAMBDA w : startswith(w.code, "ARCH_"))
    IN  IF risk_level = "Low" /\ Len(warnings) <= 2 THEN
            IF warnings = <<>>
            THEN original_prompt \o Rule \o
                 <<"SECURITY ANALYSIS: Low Risk",
                   "No significant security issues detected. Follow standard secure development practices.">>
            ELSE original_prompt \o Rule \o <<"Notes:">> \o Bullets(warnings, FALSE, "")
                 \o <<"SECURITY ANALYSIS: Low Risk">>
        ELSE IF risk_level = "High" /\ blockers # <<>> THEN
            original_prompt \o Rule \o
            <<"CRITICAL SECURITY ISSUES",
              "The following issues are UNACCEPTABLE for production and must be fixed:">>
            \o Bullets(blockers, TRUE, "")
            \o (IF errors # <<>>
                THEN <<"Additional Security Concerns:">> \o Bullets(errors, TRUE, "") ELSE <<>>)
            \o <<"These are critical vulnerabilities that could lead to data breaches, system compromise,",
                 "or unauthorized access. Do NOT proceed with implementation until these are resolved.",
                 "SECURITY ANALYSIS: High Risk">>
        ELSE IF risk_level = "Medium" /\ errors # <<>> THEN
            original_prompt \o Rule \o <<"Security Issues Detected:">> \o Bullets(errors, TRUE, "")
            \o (IF warnings # <<>>
                THEN <<"Additional Warnings:">> \o Bullets(warnings, FALSE, "  ") ELSE <<>>)
            \o <<"These issues should be addressed to meet security best practices and prevent",
                 "potential vulnerabilities in production.",
                 "SECURITY ANALYSIS: Medium Risk">>
        ELSE IF risk_level = "Medium" /\ blockers = <<>> /\ Len(warnings) >= 3 THEN
            original_prompt \o Rule \o
            <<"Quality and Design Concerns:",
              "This specification has structural and planning gaps that elevate it to Medium risk:">>
            \o (IF security_warnings # <<>>
                THEN <<"Security Concerns:">> \o Bullets(security_warnings, FALSE, "  ") ELSE <<>>)
            \o (IF quality_warnings # <<>>
                THEN <<"Quality Concerns:">> \o Bullets(quality_warnings, FALSE, "  ") ELSE <<>>)
            \o (IF arch_warnings # <<>>
                THEN <<"Architecture/Design Concerns:">> \o Bullets(arch_warnings, FALSE, "  ")
                ELSE <<>>)
            \o <<"While no critical vulnerabilities were identified, the accumulation of missing details",
                 "and deferred decisions increases the risk of security issues during implementation.",
                 "Address these concerns to ensure a robust, maintainable system.",
                 "SECURITY ANALYSIS: Medium Risk">>
        ELSE IF risk_level = "Medium" THEN
            original_prompt \o Rule \o <<"Security and Quality Issues:">>
            \o Bullets(findings, TRUE, "") \o <<"SECURITY ANALYSIS: Medium Risk">>
        ELSE
            original_prompt \o Rule \o
            <<"SECURITY ANALYSIS: " \o risk_level \o " Risk",
              "Review the detailed findings and address issues during implementation.", "\n">>

build_curated_prompt(original_prompt, constraints, risk_level, findings) ==
    LET blockers == BySeverity(findings, "BLOCKER")
        errors == BySeverity(findings, "ERROR")
        warnings == BySeverity(findings, "WARNING")
        quality_warnings == SelectSeq(warnings, LAMBDA w : startswith(w.code, "QUAL_"))
        security_warnings == SelectSeq(warnings, LAMBDA w : startswith(w.code, "SEC_"))
        arch_warnings == SelectSeq(warnings, LAMBDA w : startswith(w.code, "ARCH_"))
    IN  IF risk_level = "Low" /\ Len(warnings) <= 2 THEN
            IF warnings = <<>>
            THEN original_prompt \o Rule \o
                 <<"SECURITY ANALYSIS: Low Risk",
                   "No significant security issues detected. Follow standard secure development practices.">>
            ELSE original_prompt \o Rule \o <<"Notes:">> \o Bullets(warnings, FALSE, "")
                 \o <<"SECURITY ANALYSIS: Low Risk">>
        ELSE IF risk_level = "High" /\ blockers # <<>> THEN
            original_prompt \o Rule \o
            <<"CRITICAL SECURITY ISSUES",
              "The following issues are UNACCEPTABLE for production and must be fixed:">>
            \o Bullets(blockers, TRUE, "")
            \o (IF errors # <<>>
                THEN <<"Additional Security Concerns:">> \o Bullets(errors, TRUE, "") ELSE <<>>)
            \o <<"These are critical vulnerabilities that could lead to data breaches, system compromise,",
                 "or unauthorized access. Do NOT proceed with implementation until these are resolved.",
                 "SECURITY ANALYSIS: High Risk">>
        ELSE IF risk_level = "Medium" /\ blockers = <<>> /\ Len(warnings) >= 3 THEN
            original_prompt \o Rule \o
            <<"Quality and Design Concerns:",
              "This specification has structural and planning gaps that elevate it to Medium risk:">>
            \o (IF security_warnings # <<>>
                THEN <<"Security Concerns:">> \o Bullets(security_warnings, FALSE, "  ") ELSE <<>>)
            \o (IF quality_warnings # <<>>
                THEN <<"Quality Concerns:">> \o Bullets(quality_warnings, FALSE, "  ") ELSE <<>>)
            \o (IF arch_warnings # <<>>
                THEN <<"Architecture/Design Concerns:">> \o Bullets(arch_warnings, FALSE, "  ")
                ELSE <<>>)
            \o <<"While no critical vulnerabilities were identified, the accumulation of missing details",
                 "and deferred decisions increases the risk of security issues during implementation.",
                 "Address these concerns to ensure a robust, maintainable system.",
                 "SECURITY ANALYSIS: Medium Risk">>
        ELSE IF risk_level = "Medium" /\ errors # <<>> THEN
            original_prompt \o Rule \o <<"Security Issues Detected:">> \o Bullets(errors, TRUE, "")
            \o (IF warnings # <<>>
                THEN <<"Additional Warnings:">> \o Bullets(warnings, FALSE, "  ") ELSE <<>>)
            \o <<"These issues should be addressed to meet security best practices and prevent",
                 "potential vulnerabilities in production.",
                 "SECURITY ANALYSIS: Medium Risk">>
        ELSE IF risk_level = "Medium" THEN
            original_prompt \o Rule \o <<"Security and Quality Issues:">>
            \o Bullets(findings, TRUE, "") \o <<"SECURITY ANALYSIS: Medium Risk">>
        ELSE
            original_prompt \o Rule \o
            <<"SECURITY ANALYSIS: " \o risk_level \o " Risk",
              "Review the detailed findings and address issues during implementation.", "\n">>

\* build_guidance appending the summary after the other items
build_guidance_summary_last(prompt, findings, risk_level) ==
    LET blockers == BySeverity(findings, "BLOCKER")
        errors == BySeverity(findings, "ERROR")
        warnings == BySeverity(findings, "WARNING")
        severity_items ==
            (IF blockers # <<>>
             THEN <<GuidanceItem("Critical Security Issues Detected",
                       "Found " \o ToString(Len(blockers)) \o " BLOCKER-level security issues that must be addressed. "
                       \o "These represent serious vulnerabilities that could lead to data breaches or system compromise.")>>
             ELSE <<>>)
            \o (IF errors # <<>>
                THEN <<GuidanceItem("Security Errors Found",
                          "Found " \o ToString(Len(errors)) \o " ERROR-level security issues. "
                          \o "These should be fixed to meet security best practices.")>>
                ELSE <<>>)
            \o (IF warnings # <<>>
                THEN <<GuidanceItem("Security Warnings",
                          "Found " \o ToString(Len(warnings)) \o " WARNING-level issues. "
                          \o "Consider addressing these to improve security posture.")>>
                ELSE <<>>)
        loop_items == IF risk_level \in {"Medium", "High"} THEN ArchGuidance(findings) ELSE <<>>
        constraints_list == sorted(Constraints(findings, risk_level))
        final_curated_prompt == build_curated_prompt(prompt, constraints_list, risk_level, findings)
        guidance_items ==
            IF findings # <<>>
            THEN severity_items \o loop_items \o
                 <<GuidanceItem("Security Analysis Summary",
                      "Analyzed prompt and found " \o ToString(Len(findings)) \o " total issues: "
                      \o ToString(Len(blockers)) \o " blockers, " \o ToString(Len(errors)) \o " errors, "
                      \o ToString(Len(warnings)) \o " warnings. Risk Level: " \o risk_level \o ".")>>
            ELSE severity_items \o loop_items \o
                 <<GuidanceItem("No Security Issues Detected",
                      "The prompt passed all security checks. Proceed with implementation following best practices.")>>
    IN  <<guidance_items, final_curated_prompt>>

\* returns <<guidance_items, final_curated_prompt>>
build_guidance(prompt, findings, risk_level) ==
    LET blockers == BySeverity(findings, "BLOCKER")
        errors == BySeverity(findings, "ERROR")
        warnings == BySeverity(findings, "WARNING")
        severity_items ==
            (IF blockers # <<>>
             THEN <<GuidanceItem("Critical Security Issues Detected",
                       "Found " \o ToString(Len(blockers)) \o " BLOCKER-level security issues that must be addressed. "
                       \o "These represent serious vulnerabilities that could lead to data breaches or system compromise.")>>
             ELSE <<>>)
            \o (IF errors # <<>>
                THEN <<GuidanceItem("Security Errors Found",
                          "Found " \o ToString(Len(errors)) \o " ERROR-level security issues. "
                          \o "These should be fixed to meet security best practices.")>>
                ELSE <<>>)
            \o (IF warnings # <<>>
                THEN <<GuidanceItem("Security Warnings",
                          "Found " \o ToString(Len(warnings)) \o " WARNING-level issues. "
                          \o "Consider addressing these to improve security posture.")>>
                ELSE <<>>)
        loop_items == IF risk_level \in {"Medium", "High"} THEN ArchGuidance(findings) ELSE <<>>
        constraints_list == sorted(Constraints(findings, risk_level))
        final_curated_prompt == build_curated_prompt(prompt, constraints_list, risk_level, findings)
        guidance_items ==
            IF findings # <<>>
            THEN <<GuidanceItem("Security Analysis Summary",
                      "Analyzed prompt and found " \o ToString(Len(findings)) \o " total issues: "
                      \o ToString(Len(blockers)) \o " blockers, " \o ToString(Len(errors)) \o " errors, "
                      \o ToString(Len(warnings)) \o " warnings. Risk Level: " \o risk_level \o ".")>>
                 \o severity_items \o loop_items
            ELSE severity_items \o loop_items \o
                 <<GuidanceItem("No Security Issues Detected",
                      "The prompt passed all security checks. Proceed with implementation following best practices.")>>
    IN  <<guidance_items, final_curated_prompt>>

(***************************************************************************)
(* compute_spec_quality_score (orchestrator/pipeline.py).                  *)
(***************************************************************************)
min(a, b) == IF a <= b THEN a ELSE b

max(a, b) == IF a >= b THEN a ELSE b

\* a SpecKitStructure
SpecKitStructure(features, entities, flows, configuration, error_handling, testing, logging, authentication, data_storage) ==
    [ features |-> features, entities |-> entities, flows |-> flows,
      configuration |-> configuration, error_handling |-> error_handling,
      testing |-> testing, logging |-> logging, authentication |-> authentication,
      data_storage |-> data_storage ]

critical_categories(structure) ==
    << structure.features, structure.entities, structure.flows,
       structure.error_handling, structure.testing >>

important_categories(structure) ==
    << structure.configuration, structure.logging, structure.authentication,
       structure.data_storage >>

\* category and len(category) > 0, taken for an empty category
Populated_when_empty(category) == category = <<>>

\* category and len(category) > 0
Populated(category) == category # <<>> /\ Len(category) > 0

\* sum(len(cat) if cat else 0 for cat in categories)
RECURSIVE total_items(_)
total_items(categories) ==
    IF categories = <<>> THEN 0
    ELSE (IF Head(categories) # <<>> THEN Len(Head(categories)) ELSE 0)
         + total_items(Tail(categories))

tech_keywords ==
    << "openid connect", "oauth", "postgresql", "mysql", "mongodb", "s3", "gcs",
       "kafka", "rabbitmq", "kubernetes", "terraform", "graphql", "grpc" >>

\* sum(1 for keyword in tech_keywords if keyword in prompt_lower)
tech_count(occ) ==
    Cardinality({ k \in DOMAIN tech_keywords : \E o \in occ : o[1] = tech_keywords[k] })

\* a bonus for detailed content of 15, 10 and 5
detail_bonus_lower(items) ==
    IF items >= 15 THEN 15 ELSE IF items >= 10 THEN 10 ELSE IF items >= 6 THEN 5 ELSE 0

\* the bonus for detailed content
detail_bonus(items) ==
    IF items >= 15 THEN 20 ELSE IF items >= 10 THEN 14 ELSE IF items >= 6 THEN 7 ELSE 0

\* the final clamp taking the range of the docstring, 0-100
clamp_to_100(score) == max(0, min(100, score))

\* max(0, min(95, score))
clamp(score) == max(0, min(95, score))

compute_spec_quality_score(structure, warnings, prompt_text) ==
    LET critical == critical_categories(structure)
        important == important_categories(structure)
        critical_points == 7 * Cardinality({ i \in DOMAIN critical : Populated(critical[i]) })
        important_points == 4 * Cardinality({ i \in DOMAIN important : Populated(important[i]) })
        warning_penalty == min(Len(warnings) * 3, 15)
        all_critical_populated == \A i \in DOMAIN critical : Populated(critical[i])
        comprehensive_bonus == IF all_critical_populated THEN 10 ELSE 0
        occ == TextOccurrences(lower(prompt_text))
        count == tech_count(occ)
        tech_bonus ==
            IF count >= 4 THEN 18 ELSE IF count >= 3 THEN 12 ELSE IF count >= 2 THEN 6 ELSE 0
        text_bonus ==
            IF prompt_text # <<>>
            THEN tech_bonus
                 + (IF re_search(re_detailed_test_suite, occ) THEN 6 ELSE 0)
                 + (IF re_search(re_detailed_logging, occ) THEN 4 ELSE 0)
                 + (IF re_search(re_error_handling, occ) THEN 3 ELSE 0)
            ELSE 0
    IN  clamp(44 + critical_points + important_points - warning_penalty
              + comprehensive_bonus + detail_bonus(total_items(critical \o important))
              + text_bonus)

(***************************************************************************)
(* extract_spec_structure (orchestrator/spec_kit_adapter.py).  The         *)
(* patterns are followed inside a lexeme: a sentence that one of the       *)
(* capturing patterns reads to its full stop is one lexeme.                *)
(***************************************************************************)
\* where the patterns of a category match inside a lower-case lexeme:
\* <<category, number of the pattern in its list, first character, the value
\* taken from the match (group 1 or the whole match, stripped where the code
\* strips it)>>
Mentions(lexeme) ==
    CASE lexeme = ".env" ->
           {<<"configuration", 3, 0, ".env">>}
      [] lexeme = "account" ->
           {<<"entities", 1, 0, "account">>}
      [] lexeme = "add a search box." ->
           {<<"features", 4, 0, "search box">>}
      [] lexeme = "admin" ->
           {<<"entities", 1, 0, "admin">>}
      [] lexeme = "api" ->
           {<<"entities", 1, 0, "api">>}
      [] lexeme = "api key" ->
           {<<"entities", 1, 0, "api">>, <<"configuration", 1, 0, "api key">>,
            <<"configuration", 4, 4, "key">>}
      [] lexeme = "audit log" ->
           {<<"logging", 1, 6, "log">>, <<"logging", 6, 0, "audit log">>}
      [] lexeme = "authentication" ->
           {<<"flows", 1, 0, "authentication">>, <<"authentication", 4, 0, "authentication">>}
      [] lexeme = "authorization" ->
           {<<"flows", 1, 0, "authorization">>, <<"authentication", 5, 0, "authorization">>}
      [] lexeme = "automated test" ->
           {<<"testing", 6, 0, "automated test">>}
      [] lexeme = "connection string" ->
           {<<"configuration", 1, 0, "connection string">>}
      [] lexeme = "credentials" ->
           {<<"configuration", 4, 0, "credentials">>}
      [] lexeme = "dashboard" ->
           {<<"entities", 1, 0, "dashboard">>}
      [] lexeme = "database" ->
           {<<"entities", 1, 0, "database">>, <<"data_storage", 1, 0, "database">>}
      [] lexeme = "database url" ->
           {<<"entities", 1, 0, "database">>, <<"configuration", 1, 0, "database url">>,
            <<"data_storage", 1, 0, "database">>}
      [] lexeme = "e2e test" ->
           {<<"testing", 4, 0, "e2e test">>}
      [] lexeme = "endpoint" ->
           {<<"entities", 1, 0, "endpoint">>}
      [] lexeme = "environment variables" ->
           {<<"configuration", 1, 0, "environment variable">>,
            <<"configuration", 3, 0, "environment variables">>}
      [] lexeme = "error handling" ->
           {<<"error_handling", 1, 0, "error handling">>}
      [] lexeme = "error response" ->
           {<<"error_handling", 6, 0, "error response">>}
      [] lexeme = "exception handling" ->
           {<<"error_handling", 2, 0, "exception handling">>}
      [] lexeme = "fallback" ->
           {<<"error_handling", 3, 0, "fallback">>}
      [] lexeme = "graceful degradation" ->
           {<<"error_handling", 5, 0, "graceful degradation">>}
      [] lexeme = "implement it." ->
           {<<"features", 1, 0, "it">>}
      [] lexeme = "implement password reset." ->
           {<<"features", 1, 0, "password reset">>}
      [] lexeme = "integration test" ->
           {<<"testing", 3, 0, "integration test">>}
      [] lexeme = "json web token" ->
           {<<"entities", 1, 9, "token">>, <<"authentication", 2, 0, "json web token">>}
      [] lexeme = "jwt" ->
           {<<"authentication", 2, 0, "jwt">>}
      [] lexeme = "jwt secret" ->
           {<<"configuration", 1, 0, "jwt secret">>, <<"configuration", 4, 4, "secret">>,
            <<"authentication", 2, 0, "jwt">>}
      [] lexeme = "keys" ->
           {<<"configuration", 4, 0, "keys">>}
      [] lexeme = "log request method" ->
           {<<"logging", 1, 0, "log">>}
      [] lexeme = "logging" ->
           {<<"logging", 1, 0, "logging">>}
      [] lexeme = "login" ->
           {<<"flows", 1, 0, "login">>, <<"logging", 1, 0, "login">>}
      [] lexeme = "logout" ->
           {<<"flows", 1, 0, "logout">>, <<"logging", 1, 0, "log">>}
      [] lexeme = "metrics" ->
           {<<"logging", 4, 0, "metrics">>}
      [] lexeme = "model." ->
           {<<"entities", 1, 0, "model">>}
      [] lexeme = "mongodb" ->
           {<<"data_storage", 1, 0, "mongodb">>}
      [] lexeme = "monitoring" ->
           {<<"logging", 3, 0, "monitoring">>}
      [] lexeme = "oauth" ->
           {<<"authentication", 1, 0, "oauth">>}
      [] lexeme = "oauth2" ->
           {<<"authentication", 1, 0, "oauth2">>}
      [] lexeme = "observability" ->
           {<<"logging", 2, 0, "observability">>}
      [] lexeme = "postgresql" ->
           {<<"data_storage", 1, 0, "postgres">>, <<"data_storage", 4, 7, "sql">>}
      [] lexeme = "profile" ->
           {<<"entities", 1, 0, "profile">>}
      [] lexeme = "profile json" ->
           {<<"entities", 1, 0, "profile">>}
      [] lexeme = "rbac" ->
           {<<"authentication", 8, 0, "rbac">>}
      [] lexeme = "register" ->
           {<<"flows", 1, 0, "register">>}
      [] lexeme = "retry" ->
           {<<"error_handling", 4, 0, "retry">>}
      [] lexeme = "role-based" ->
           {<<"authentication", 7, 0, "role-based">>}
      [] lexeme = "secrets" ->
           {<<"configuration", 4, 0, "secrets">>}
      [] lexeme = "session" ->
           {<<"entities", 1, 0, "session">>, <<"authentication", 3, 0, "session">>}
      [] lexeme = "sessions" ->
           {<<"authentication", 3, 0, "sessions">>}
      [] lexeme = "single sign-on" ->
           {<<"authentication", 6, 0, "single sign-on">>}
      [] lexeme = "sso" ->
           {<<"authentication", 6, 0, "sso">>}
      [] lexeme = "storage" ->
           {<<"data_storage", 3, 0, "storage">>}
      [] lexeme = "store jwt in file" ->
           {<<"authentication", 2, 6, "jwt">>}
      [] lexeme = "table" ->
           {<<"entities", 1, 0, "table">>}
      [] lexeme = "telemetry" ->
           {<<"logging", 5, 0, "telemetry">>}
      [] lexeme = "test coverage" ->
           {<<"testing", 5, 0, "test coverage">>}
      [] lexeme = "test plan" ->
           {<<"testing", 1, 0, "test plan">>}
      [] lexeme = "test suite that covers" ->
           {<<"testing", 1, 0, "test suite">>}
      [] lexeme = "token" ->
           {<<"entities", 1, 0, "token">>}
      [] lexeme = "unit test" ->
           {<<"testing", 2, 0, "unit test">>}
      [] lexeme = "user" ->
           {<<"entities", 1, 0, "user">>}
      [] OTHER -> {}

\* the number of patterns of a category
Patterns(category) ==
    CASE category = "features" -> 6
      [] category = "entities" -> 3
      [] category = "flows" -> 4
      [] category = "configuration" -> 4
      [] category = "error_handling" -> 7
      [] category = "testing" -> 6
      [] category = "logging" -> 6
      [] category = "authentication" -> 8
      [] category = "data_storage" -> 4

\* the values of a set of <<first character, value>> from left to right
RECURSIVE InOrder(_)
InOrder(S) ==
    IF S = {} THEN <<>>
    ELSE LET m == CHOOSE x \in S : \A y \in S : x[1] <= y[1]
         IN  <<m[2]>> \o InOrder(S \ {m})

\* re.finditer(pattern, text) from lexeme i on: the values of the matches
RECURSIVE finditer(_, _, _, _)
finditer(category, pattern, text, i) ==
    IF i > Len(text) THEN <<>>
    ELSE InOrder({ <<m[3], m[4]>> :
                     m \in { x \in Mentions(text[i]) : x[1] = category /\ x[2] = pattern } })
         \o finditer(category, pattern, text, i + 1)

\* the loop over the patterns of a category, from pattern k on
RECURSIVE Matches(_, _, _)
Matches(category, text, k) ==
    IF k > Patterns(category) THEN <<>>
    ELSE finditer(category, k, text, 1) \o Matches(category, text, k + 1)

\* list(dict.fromkeys(seq)): the first occurrence of every value
RECURSIVE fromkeys(_)
fromkeys(seq) ==
    IF seq = <<>> THEN <<>>
    ELSE LET before == fromkeys(SubSeq(seq, 1, Len(seq) - 1))
         IN  IF \E i \in DOMAIN before : before[i] = seq[Len(seq)] THEN before
             ELSE Append(before, seq[Len(seq)])

\* the slice left out: the whole list
Slice_left_out(seq, n) == seq

\* seq[:n]
Slice(seq, n) == SubSeq(seq, 1, min(Len(seq), n))

extract_spec_structure(prompt_text) ==
    LET prompt_lower == lower(prompt_text)
        found(category) == Matches(category, prompt_lower, 1)
        features == SelectSeq(found("features"), LAMBDA f : Len(f) > 5 /\ Len(f) < 100)
        entities == found("entities")
        entities_found == { entities[i] : i \in { j \in DOMAIN entities :
                                entities[j] # "" /\ Len(entities[j]) < 30 } }
        flows == found("flows")
        flows_found == { flows[i] : i \in { j \in DOMAIN flows :
                             flows[j] # "" /\ Len(flows[j]) < 50 } }
        configuration == SelectSeq(found("configuration"), LAMBDA c : c # "" /\ Len(c) < 80)
    IN  SpecKitStructure(Slice(fromkeys(features), 10),
                         sorted(entities_found),
                         sorted(flows_found),
                         Slice(fromkeys(configuration), 10),
                         Slice(fromkeys(found("error_handling")), 5),
                         Slice(fromkeys(found("testing")), 5),
                         Slice(fromkeys(found("logging")), 5),
                         Slice(fromkeys(found("authentication")), 10),
                         Slice(fromkeys(found("data_storage")), 10))

(***************************************************************************)
(* parse_devspec_output and run_dev_spec_kit                               *)
(* (orchestrator/devspec_runner.py).  The scanner output is a str.         *)
(***************************************************************************)
\* the characters of a str
Chars(s) == [i \in 1..Len(s) |-> SubSeq(s, i, i)]

\* str.strip() on a str
StripOf(s, chars) ==
    LET blank(i) == chars[i] \in {" ", "\n", "\t"}
    IN  IF \A i \in DOMAIN chars : blank(i) THEN ""
        ELSE SubSeq(s, CHOOSE i \in DOMAIN chars : ~blank(i) /\ \A j \in 1..(i - 1) : blank(j),
                       CHOOSE i \in DOMAIN chars :
                           ~blank(i) /\ \A j \in (i + 1)..Len(chars) : blank(j))

str_strip(s) == StripOf(s, Chars(s))

\* s.split('\n'): the pieces between the line feeds
SplitOf(s, chars) ==
    LET feeds == { i \in DOMAIN chars : chars[i] = "\n" }
        \* the line feeds in order, between the two ends of the str
        RECURSIVE ordered(_)
        ordered(rest) ==
            IF rest = {} THEN <<Len(s) + 1>>
            ELSE LET first == CHOOSE i \in rest : \A j \in rest : i <= j
                 IN  <<first>> \o ordered(rest \ {first})
        bounds == <<0>> \o ordered(feeds)
    IN  [k \in 1..(Len(bounds) - 1) |-> SubSeq(s, bounds[k] + 1, bounds[k + 1] - 1)]

split(s) == SplitOf(s, Chars(s))

\* s.replace(old, ''), from character i on
RECURSIVE RemoveFrom(_, _, _)
RemoveFrom(s, old, i) ==
    IF i > Len(s) THEN ""
    ELSE IF i + Len(old) - 1 <= Len(s) /\ SubSeq(s, i, i + Len(old) - 1) = old
         THEN RemoveFrom(s, old, i + Len(old))
         ELSE SubSeq(s, i, i) \o RemoveFrom(s, old, i + 1)

\* first position from i on whose character is not in class
RunEnd(chars, i, class) ==
    CHOOSE e \in i..(Len(chars) + 1) :
        /\ \A j \in i..(e - 1) : chars[j] \in class
        /\ e <= Len(chars) => chars[e] \notin class

\* '\[([class]+)\]' at position i: the group and the position after it
Group(chars, i, class) ==
    LET e == RunEnd(chars, i + 1, class)
    IN  IF i <= Len(chars) /\ chars[i] = "[" /\ e > i + 1 /\ e <= Len(chars) /\ chars[e] = "]"
        THEN [matched |-> TRUE, first |-> i + 1, last |-> e - 1, end |-> e + 1]
        ELSE [matched |-> FALSE, first |-> i, last |-> i - 1, end |-> i]

\* [A-Z]
Letters ==
    { "A", "B", "C", "D", "E", "F", "G", "H", "I", "J", "K", "L", "M", "N", "O", "P", "Q",
      "R", "S", "T", "U", "V", "W", "X", "Y", "Z" }

\* [A-Z_0-9]
CodeCharacters == Letters \cup {"_", "0", "1", "2", "3", "4", "5", "6", "7", "8", "9"}

\* re.match(r'\[([A-Z]+)\]\[([A-Z]+)\]\[([A-Z_0-9]+)\]', line)
re_match_tag(line) ==
    LET chars == Chars(line)
        g1 == Group(chars, 1, Letters)
        g2 == Group(chars, g1.end, Letters)
        g3 == Group(chars, g2.end, CodeCharacters)
    IN  [matched |-> g1.matched /\ g2.matched /\ g3.matched,
         category |-> SubSeq(line, g1.first, g1.last),
         severity |-> SubSeq(line, g2.first, g2.last),
         code |-> SubSeq(line, g3.first, g3.last)]

\* the loop of parse_devspec_output from line i on (lines counted from 1)
RECURSIVE parse_lines(_, _, _)
parse_lines(lines, i, findings) ==
    IF i > Len(lines) THEN findings
    ELSE LET match == re_match_tag(str_strip(lines[i]))
             message == IF i + 1 <= Len(lines) THEN str_strip(lines[i + 1]) ELSE ""
             suggestion ==
                 IF i + 2 <= Len(lines) /\ startswith(str_strip(lines[i + 2]), "Suggestion:")
                 THEN str_strip(RemoveFrom(str_strip(lines[i + 2]), "Suggestion:", 1))
                 ELSE ""
         IN  IF match.matched
             THEN parse_lines(lines, i + 3,
                      Append(findings,
                             [category |-> match.category, severity |-> match.severity,
                              code |-> match.code, message |-> message,
                              suggestion |-> suggestion]))
             ELSE parse_lines(lines, i + 1, findings)

parse_devspec_output(output) == parse_lines(split(str_strip(output)), 1, <<>>)

\* an iteration of the loop that never advances past a line without a tag
parse_iteration_stuck(lines, i, findings) ==
    LET match == re_match_tag(str_strip(lines[i]))
        message == IF i + 1 <= Len(lines) THEN str_strip(lines[i + 1]) ELSE ""
        suggestion ==
            IF i + 2 <= Len(lines) /\ startswith(str_strip(lines[i + 2]), "Suggestion:")
            THEN str_strip(RemoveFrom(str_strip(lines[i + 2]), "Suggestion:", 1))
            ELSE ""
    IN  IF match.matched
        THEN [i |-> i + 3,
              read |-> {i} \cup (IF i + 1 <= Len(lines) THEN {i + 1} ELSE {})
                           \cup (IF i + 2 <= Len(lines) THEN {i + 2} ELSE {}),
              findings |-> Append(findings,
                  [category |-> match.category, severity |-> match.severity,
                   code |-> match.code, message |-> message,
                   suggestion |-> suggestion])]
        ELSE [i |-> i, read |-> {i}, findings |-> findings]

\* one iteration of the loop of parse_devspec_output at line i: the index
\* and the findings after it, and the lines it read
parse_iteration(lines, i, findings) ==
    LET match == re_match_tag(str_strip(lines[i]))
        message == IF i + 1 <= Len(lines) THEN str_strip(lines[i + 1]) ELSE ""
        suggestion ==
            IF i + 2 <= Len(lines) /\ startswith(str_strip(lines[i + 2]), "Suggestion:")
            THEN str_strip(RemoveFrom(str_strip(lines[i + 2]), "Suggestion:", 1))
            ELSE ""
    IN  IF match.matched
        THEN [i |-> i + 3,
              read |-> {i} \cup (IF i + 1 <= Len(lines) THEN {i + 1} ELSE {})
                           \cup (IF i + 2 <= Len(lines) THEN {i + 2} ELSE {}),
              findings |-> Append(findings,
                  [category |-> match.category, severity |-> match.severity,
                   code |-> match.code, message |-> message,
                   suggestion |-> suggestion])]
        ELSE [i |-> i + 1, read |-> {i}, findings |-> findings]

\* what run_dev_spec_kit hands back: the returned tuple, or the exception it
\* lets through
Returns(raw_output, findings, exit_code) ==
    [raised |-> FALSE, exception |-> "", raw_output |-> raw_output, findings |-> findings,
     exit_code |-> exit_code]

Raises(exception) ==
    [raised |-> TRUE, exception |-> exception, raw_output |-> "", findings |-> <<>>,
     exit_code |-> 0]

\* run_dev_spec_kit without its except clauses
run_dev_spec_kit_unguarded(outcome) ==
    IF outcome.kind = "missing" THEN Raises("FileNotFoundError")
    ELSE IF outcome.kind = "chmod failed" THEN Raises(outcome.error)
    ELSE IF outcome.kind = "timeout" THEN Raises("TimeoutExpired")
    ELSE IF outcome.kind = "failed" THEN Raises(outcome.error)
    ELSE Returns(outcome.stdout, parse_devspec_output(outcome.stdout), outcome.returncode)

\* run_dev_spec_kit on what happens to the scanner script: it is missing,
\* os.chmod fails on it, subprocess.run times out, subprocess.run fails, or
\* the script completes with an output and a return code
run_dev_spec_kit(outcome) ==
    IF outcome.kind = "missing" THEN Raises("FileNotFoundError")
    ELSE IF outcome.kind = "chmod failed" THEN Raises(outcome.error)
    ELSE IF outcome.kind = "timeout" THEN Returns("ERROR: Script execution timed out", <<>>, -1)
    ELSE IF outcome.kind = "failed" THEN Returns("ERROR: " \o outcome.error, <<>>, -1)
    ELSE Returns(outcome.stdout, parse_devspec_output(outcome.stdout), outcome.returncode)

(***************************************************************************)
(* analyze_prompt (orchestrator/pipeline.py).                              *)
(***************************************************************************)
\* any(f.severity.upper() == severity for f in findings)
AnySeverity(findings, severity) == \E i \in DOMAIN findings : upper(findings[i].severity) = severity

\* RiskLevel with the escalation of three or more warnings to Medium
RiskLevel_WarningEscalation(filtered_findings) ==
    IF AnySeverity(filtered_findings, "BLOCKER") THEN "High"
    ELSE IF AnySeverity(filtered_findings, "ERROR") THEN "Medium"
    ELSE IF Len(BySeverity(filtered_findings, "WARNING")) >= 3 THEN "Medium"
    ELSE "Low"

\* RiskLevel looking at security findings only
RiskLevel_SecurityOnly(filtered_findings) ==
    LET security == SelectSeq(filtered_findings, LAMBDA f : startswith(f.code, "SEC_"))
    IN  IF AnySeverity(security, "BLOCKER") THEN "High"
        ELSE IF AnySeverity(security, "ERROR") THEN "Medium"
        ELSE "Low"

\* the risk level with an ERROR counted as critical
RiskLevel_ErrorsHigh(filtered_findings) ==
    IF AnySeverity(filtered_findings, "BLOCKER") THEN "High"
    ELSE IF AnySeverity(filtered_findings, "ERROR") THEN "High"
    ELSE IF AnySeverity(filtered_findings, "WARNING") THEN "Low"
    ELSE "Low"

\* the risk level from the severities of the filtered findings
RiskLevel(filtered_findings) ==
    IF AnySeverity(filtered_findings, "BLOCKER") THEN "High"
    ELSE IF AnySeverity(filtered_findings, "ERROR") THEN "Medium"
    ELSE IF AnySeverity(filtered_findings, "WARNING") THEN "Low"
    ELSE "Low"

\* the AnalysisResponse for a prompt on which the scanner emitted `scanned`
analyze_prompt(original, scanned) ==
    LET normalized_prompt == strip(original)
        filtered == filter_false_positives(normalized_prompt, scanned)
        risk_level == RiskLevel(filtered)
        guidance == build_guidance(normalized_prompt, filtered, risk_level)
    IN  [ original_prompt |-> original,
          normalized_prompt |-> normalized_prompt,
          devspec_findings |-> filtered,
          guidance |-> guidance[1],
          final_curated_prompt |-> guidance[2],
          has_blockers |-> AnySeverity(filtered, "BLOCKER"),
          has_errors |-> AnySeverity(filtered, "ERROR"),
          risk_level |-> risk_level ]

(***************************************************************************)
(* analyze_prompt statement by statement: the toggle, the adapter stage,   *)
(* the scanner (orchestrator/pipeline.py, spec_kit_adapter.py).            *)
(***************************************************************************)
\* Optional values: None, or the value
None == <<>>
Some(value) == <<value>>

\* os.getenv("USE_SPEC_KIT", "").lower() in ("true", "1", "yes"), on the
\* value of the setting ("" when it is unset)
should_use_spec_kit(value) ==
    LET lower_value == IF value = "TRUE" THEN "true" ELSE value
    IN  lower_value \in {"true", "1", "yes"}

\* the adapter, or None when the setting is off at the time of the call
get_adapter(value) == IF should_use_spec_kit(value) THEN Some("SpecKitAdapter") ELSE None

\* len(s.split())
WordCount(s) ==
    LET chars == Chars(s)
    IN  Cardinality({ i \in DOMAIN chars :
                        chars[i] \notin Whitespace /\ (i = 1 \/ chars[i - 1] \in Whitespace) })

detect_missing_spec_areas(structure) ==
    LET vague_features == SelectSeq(structure.features, LAMBDA f : WordCount(f) < 3)
    IN  (IF structure.features = <<>>
         THEN <<"No features or requirements explicitly defined. Consider specifying what the system should do.">>
         ELSE <<>>)
        \o (IF structure.entities = <<>>
            THEN <<"No data models or entities identified. Consider defining what data structures are needed.">>
            ELSE <<>>)
        \o (IF structure.flows = <<>>
            THEN <<"No user flows or workflows identified. Consider describing how users interact with the system.">>
            ELSE <<>>)
        \o (IF structure.error_handling = <<>>
            THEN <<"No error handling strategy mentioned. Consider how the system handles failures and edge cases.">>
            ELSE <<>>)
        \o (IF structure.testing = <<>>
            THEN <<"No testing strategy mentioned. Consider adding test plans, unit tests, or integration tests.">>
            ELSE <<>>)
        \o (IF structure.logging = <<>>
            THEN <<"No logging or monitoring mentioned. Consider how you'll track system behavior and debug issues.">>
            ELSE <<>>)
        \o (IF /\ structure.authentication # <<>>
               /\ ~\E i \in DOMAIN structure.flows :
                     Contains(structure.flows[i], "login") \/ Contains(structure.flows[i], "auth")
            THEN <<"Authentication mentioned but login/auth flow not clearly defined.">>
            ELSE <<>>)
        \o (IF structure.data_storage # <<>> /\ structure.configuration = <<>>
            THEN <<"Data storage mentioned but configuration details (connection strings, env vars) not specified.">>
            ELSE <<>>)
        \o (IF structure.features # <<>> /\ 2 * Len(vague_features) > Len(structure.features)
            THEN <<"Some features are vaguely defined. Consider adding more detail about what each feature should do.">>
            ELSE <<>>)

\* the frame of a call that has just been entered: its argument, what will
\* happen to the scanner script in it and where the adapter stage will fail
NewCall(prompt_text, scanner, fault) ==
    [ pc |-> "start", prompt |-> prompt_text, scanner |-> scanner, fault |-> fault,
      normalized_prompt |-> <<>>, spec_kit_enabled |-> FALSE, spec_kit_success |-> None,
      spec_kit_raw_output |-> None, spec_kit_summary |-> None, spec_kit_structure |-> None,
      spec_quality_warnings |-> <<>>, spec_quality_score |-> None,
      exception |-> None, response |-> None ]

\* lines 325-334: the prompt is stripped, the setting is read, the spec-kit
\* fields get their defaults
read_toggle(frame, value) ==
    [frame EXCEPT !.pc = "toggled",
                  !.normalized_prompt = strip(frame.prompt),
                  !.spec_kit_enabled = should_use_spec_kit(value),
                  !.spec_kit_success = None,
                  !.spec_kit_raw_output = None,
                  !.spec_kit_summary = None,
                  !.spec_kit_structure = None,
                  !.spec_quality_warnings = <<>>,
                  !.spec_quality_score = None]

\* lines 336-367: the adapter stage with its except clause; the setting is
\* read again by get_adapter
adapter_stage(frame, value) ==
    LET spec_adapter == get_adapter(value)
        structure == extract_spec_structure(frame.normalized_prompt)
        warnings == detect_missing_spec_areas(structure)
        except(f) ==
            [f EXCEPT !.spec_kit_success = Some(FALSE),
                      !.spec_kit_raw_output = Some("spec-kit error: " \o frame.fault.error),
                      !.spec_kit_summary = Some("spec-kit failed: " \o frame.fault.error)]
        entered == [frame EXCEPT !.pc = "adapted"]
        called ==
            [entered EXCEPT
                !.spec_kit_success = Some(TRUE),
                !.spec_kit_raw_output =
                    Some("spec-kit analysis: Extracting spec structure from prompt.\n"
                         \o "This provides workflow insights, not security analysis.\n"),
                !.spec_kit_structure = Some(structure)]
        detected == [called EXCEPT !.spec_quality_warnings = warnings]
        completed ==
            [detected EXCEPT
                !.spec_quality_score =
                    Some(compute_spec_quality_score(structure, warnings, frame.normalized_prompt)),
                !.spec_kit_summary =
                    Some("spec-kit completed (workflow tool, not security analyzer)")]
    IN  IF ~frame.spec_kit_enabled THEN entered
        ELSE IF spec_adapter = None THEN entered
        ELSE IF frame.fault.at = "adapter" THEN except(entered)
        ELSE IF frame.fault.at = "detect" THEN except(called)
        ELSE IF frame.fault.at = "score" THEN except(detected)
        ELSE completed

\* os.chmod flipping the execute bits instead of setting them
chmod_flipping(mode) == IF mode = "0755" THEN "0644" ELSE "0755"

\* os.chmod(script_path, 0o755)
chmod(mode) == "0755"

\* lines 23-38 of run_dev_spec_kit: the script is looked up and made
\* executable, or the exception ends the call
prepare_script(frame) ==
    IF run_dev_spec_kit(frame.scanner).raised
    THEN [frame EXCEPT !.pc = "raised",
                       !.exception = Some(run_dev_spec_kit(frame.scanner).exception)]
    ELSE [frame EXCEPT !.pc = "prepared"]

\* lines 40-61 of run_dev_spec_kit: a script without execute permission makes
\* subprocess.run raise, which the except clause turns into the error result
run_script(frame, mode) ==
    IF mode = "0755" THEN run_dev_spec_kit(frame.scanner)
    ELSE Returns("ERROR: [Errno 13] Permission denied", <<>>, -1)

\* the response with the scanner stage left out when the adapter stage ran
respond_adapter_only(frame, returned) ==
    analyze_prompt(frame.prompt, IF frame.spec_kit_enabled THEN <<>> ELSE returned.findings)
    @@ [ devspec_raw_output |-> returned.raw_output,
         exit_code |-> returned.exit_code,
         spec_kit_enabled |-> frame.spec_kit_enabled,
         spec_kit_success |-> frame.spec_kit_success,
         spec_kit_raw_output |-> frame.spec_kit_raw_output,
         spec_kit_summary |-> frame.spec_kit_summary,
         spec_kit_structure |-> frame.spec_kit_structure,
         spec_quality_warnings |-> frame.spec_quality_warnings,
         spec_quality_score |-> frame.spec_quality_score ]

\* lines 373-423: the AnalysisResponse from what the scanner returned and the
\* spec-kit fields of the frame
respond(frame, returned) ==
    analyze_prompt(frame.prompt, returned.findings)
    @@ [ devspec_raw_output |-> returned.raw_output,
         exit_code |-> returned.exit_code,
         spec_kit_enabled |-> frame.spec_kit_enabled,
         spec_kit_success |-> frame.spec_kit_success,
         spec_kit_raw_output |-> frame.spec_kit_raw_output,
         spec_kit_summary |-> frame.spec_kit_summary,
         spec_kit_structure |-> frame.spec_kit_structure,
         spec_quality_warnings |-> frame.spec_quality_warnings,
         spec_quality_score |-> frame.spec_quality_score ]

\* the rest of the call once the script is prepared
run_scanner(frame, mode) ==
    [frame EXCEPT !.pc = "returned", !.response = Some(respond(frame, run_script(frame, mode)))]

(***************************************************************************)
(* State.                                                                  *)
(***************************************************************************)
VARIABLES
    prompt,             \* the caller's prompt of the current request
    devspec_findings,   \* the findings the scanner emits on it
    pending,            \* the request has not been analysed yet
    responses,          \* the AnalysisResponse of every call so far, in order
    filtered_findings,  \* the outputs of the successive runs of the suppressor
    built,              \* the direct calls of build_guidance: arguments, locals, result
    scored,             \* the calls of compute_spec_quality_score: arguments, result
    parsed,             \* the calls of parse_devspec_output: argument, result
    run,                \* what run_dev_spec_kit did in every call of analyze_prompt
    parser,             \* the frame of the loop of parse_devspec_output
    env,                \* the USE_SPEC_KIT setting of the process environment
    calls,              \* the frame of every call of analyze_prompt in progress
    extracted,          \* the calls of extract_spec_structure: argument, result
    script_mode         \* the permission bits of the scanner script

vars == <<prompt, devspec_findings, pending, responses, filtered_findings,
          built, scored, parsed, run, parser, env, calls, extracted,
          script_mode>>

(***************************************************************************)
(* Explored inputs.                                                        *)
(***************************************************************************)
\* phrases of the prompts sent to analyze_prompt
RequestPhrases == {"Blank", "LineFeed", "Rest", "Hashed", "Internal"}

\* findings of the scanner runs under analyze_prompt
ScannerFindings ==
    { Finding("BLOCKER", "SEC_PLAINTEXT_PASSWORDS", "Passwords stored in plain text"),
      Finding("ERROR", "SEC_HTTP_FOR_AUTH", "Authentication over HTTP"),
      Finding("WARNING", "SEC_NO_AUTH_INTERNAL", "Internal endpoint without authentication"),
      Finding("WARNING", "QUAL_NO_TESTING", "No testing strategy"),
      Finding("WARNING", "ARCH_VAGUE_DATABASE", "Database not decided"),
      Finding("INFO", "SEC_LOGS_PII_EMAIL", "Logs contain e-mail addresses") }

\* the scenarios of the suppressor: the phrases of the prompt, the code whose
\* rule they exercise and the other codes emitted with it
Scenarios ==
    { [phrases |-> {"EnvVars", "NeverCode", "UseQuoted", "Assign", "NotHardcoded", "LineFeed"},
       code |-> "SEC_HARDCODED_SECRET", others |-> {"SEC_SECRETS_IN_CONFIG_FILE"}],
      [phrases |-> {"EnvVars", "NeverCode", "NotTokens", "StoreJwt", "UserJson", "Jwt"},
       code |-> "SEC_INSECURE_JWT_STORAGE", others |-> {"SEC_HARDCODED_SECRET"}],
      [phrases |-> {"Hashed", "NoPasswords", "Anywhere", "Login", "LineFeed"},
       code |-> "SEC_PLAINTEXT_PASSWORDS", others |-> {"SEC_NO_TLS_FOR_AUTH"}],
      [phrases |-> {"NoDebug", "DebugNoSecret", "DebugIds", "LineFeed", "Rest"},
       code |-> "SEC_DEBUG_EXPOSES_SECRETS", others |-> {"SEC_DEBUG_EXPOSES_PII"}],
      [phrases |-> {"Validate", "SkipValidate", "NoDebug", "LineFeed"},
       code |-> "SEC_MISSING_INPUT_VALIDATION", others |-> {"SEC_TRUSTS_GATEWAY_HEADER"}],
      [phrases |-> {"Md5Checksum", "Md5Password", "NotTokens", "SkipAuth", "LineFeed"},
       code |-> "SEC_WEAK_HASH_MD5", others |-> {"SEC_LOGS_PII_EMAIL"}],
      [phrases |-> {"Login", "Jwt", "NoPasswords", "Anywhere", "Storage"},
       code |-> "SEC_NO_TLS_FOR_AUTH", others |-> {"SEC_HTTP_FOR_AUTH"}],
      [phrases |-> {"Internal", "SkipAuth", "Login", "LineFeed"},
       code |-> "SEC_NO_AUTH_INTERNAL", others |-> {"SEC_HTTP_FOR_AUTH"}] }

\* the findings of a scenario: its code is reported at two severities with
\* two messages, every other code once
ScenarioFindings(scenario) ==
    { Finding("BLOCKER", scenario.code, "First report of " \o scenario.code),
      Finding("WARNING", scenario.code, "Second report of " \o scenario.code) }
    \cup { Finding("ERROR", c, "Report of " \o c) : c \in scenario.others }

\* the requests of the specification of successive calls
CallPrompts == { Compose(<<"Rest">>), Compose(<<"Hashed">>), Compose(<<"Blank", "Internal">>) }

CallScans ==
    LET b == Finding("BLOCKER", "SEC_PLAINTEXT_PASSWORDS", "Passwords stored in plain text")
        e == Finding("ERROR", "SEC_HTTP_FOR_AUTH", "Authentication over HTTP")
        w == Finding("WARNING", "SEC_NO_AUTH_INTERNAL", "Internal endpoint without authentication")
        q == Finding("WARNING", "QUAL_NO_TESTING", "No testing strategy")
        x == Finding("ERROR", "QUAL_NO_ERROR_HANDLING", "No error handling")
        a == Finding("WARNING", "ARCH_VAGUE_DATABASE", "Database not decided")
    IN  { <<>>, <<b>>, <<e>>, <<x>>, <<w>>, <<q>>, <<w, q>>, <<q, w>>, <<e, q>>, <<q, x>>, <<b, e>>,
          <<w, q, a>>, <<e, w, q, a>> }

\* the risk levels build_guidance is called with
RiskLevels == {"Low", "Medium", "High"}

\* the prompts and the findings of the direct calls of build_guidance
GuidancePrompts == { Compose(<<"Rest">>), Compose(<<"Hashed">>) }

GuidanceFindings ==
    { Finding("BLOCKER", "SEC_HARDCODED_SECRET", "Secret in the code"),
      Finding("ERROR", "SEC_SECRETS_IN_CONFIG_FILE", "Secret in a config file"),
      Finding("ERROR", "SEC_HTTP_FOR_AUTH", "Authentication over HTTP"),
      Finding("WARNING", "QUAL_NO_TESTING", "No testing strategy"),
      Finding("WARNING", "ARCH_VAGUE_DATABASE", "Database not decided"),
      Finding("WARNING", "SEC_NO_AUTH_INTERNAL", "Internal endpoint without authentication") }

\* the nine categories of a structure
Categories ==
    { "features", "entities", "flows", "configuration", "error_handling", "testing",
      "logging", "authentication", "data_storage" }

\* n items of a category
Items(category, n) == [i \in 1..n |-> category \o " " \o ToString(i)]

\* the structure with n items in each of the populated categories
StructureOf(populated, n) ==
    LET items(category) == IF category \in populated THEN Items(category, n) ELSE <<>>
    IN  SpecKitStructure(items("features"), items("entities"), items("flows"),
                         items("configuration"), items("error_handling"), items("testing"),
                         items("logging"), items("authentication"), items("data_storage"))

\* a list of n warnings
Warnings(n) == [i \in 1..n |-> "Missing area " \o ToString(i)]

\* the prompt texts given to compute_spec_quality_score
QualityTexts ==
    { <<>>,
      Compose(<<"Rest">>),
      Compose(<<"OAuth">>),
      Compose(<<"Databases">>),
      Compose(<<"Databases", "OAuth">>),
      Compose(<<"Databases", "Messaging">>),
      Compose(<<"Databases", "Messaging", "OAuth">>),
      Compose(<<"TestSuite">>),
      Compose(<<"TestsCover">>),
      Compose(<<"RequestLog">>),
      Compose(<<"ErrorHandling">>),
      Compose(<<"EdgeCases">>),
      Compose(<<"TestsCover", "LineFeed", "Login">>),
      Compose(<<"Databases", "Messaging", "TestSuite", "RequestLog", "ErrorHandling">>) }

\* what a scanner output is made of: a finding block (tag line, message
\* line, Suggestion line or none, blank line after it or none) or a stray line
OutputElements ==
    { [stray |-> FALSE, tag |-> t[1], category |-> t[2], severity |-> t[3], code |-> t[4],
       message |-> t[5], suggestion |-> sg, blank |-> bl] :
          t \in { << "[SECURITY][BLOCKER][SEC_PLAINTEXT_PASSWORDS]", "SECURITY", "BLOCKER",
                     "SEC_PLAINTEXT_PASSWORDS", "Passwords stored in plain text" >>,
                  << "  [ARCH][WARNING][ARCH_VAGUE_DATABASE]", "ARCH", "WARNING",
                     "ARCH_VAGUE_DATABASE", "Database not decided" >> },
          sg \in {"", "Hash passwords"}, bl \in BOOLEAN }
    \cup { [stray |-> TRUE, tag |-> "=== Security Check ===", category |-> "",
            severity |-> "", code |-> "", message |-> "", suggestion |-> "", blank |-> FALSE] }

\* the text of an element, and of a scanner output
Render(element) ==
    IF element.stray THEN element.tag \o "\n"
    ELSE element.tag \o "\n" \o element.message \o " \n"
         \o (IF element.suggestion # "" THEN "Suggestion: " \o element.suggestion \o "\n" ELSE "")
         \o (IF element.blank THEN "\n" ELSE "")

RECURSIVE RenderAll(_)
RenderAll(elements) ==
    IF elements = <<>> THEN "" ELSE Render(Head(elements)) \o RenderAll(Tail(elements))

\* the phrases of the texts given to extract_spec_structure
ExtractPhrases ==
    { "EntitiesA", "EntitiesB", "Flows", "Logging", "Testing", "Errors", "Auth", "Config",
      "Features", "Databases" }

\* the outputs parsed iteration by iteration: those elements and a tag line
\* with nothing after it
LoopElements ==
    OutputElements
    \cup { [stray |-> TRUE, tag |-> "[QUALITY][ERROR][QUAL_NO_TESTS]", category |-> "",
            severity |-> "", code |-> "", message |-> "", suggestion |-> "", blank |-> FALSE] }

\* what can happen to the scanner script in a run
Outcome(kind, stdout, returncode, error) ==
    [kind |-> kind, stdout |-> stdout, returncode |-> returncode, error |-> error]

ScannerOutcomes ==
    { Outcome("completed", RenderAll(elements), returncode, "") :
         elements \in SeqsUpTo(OutputElements, MaxScanBlocks), returncode \in {0, 2} }
    \cup { Outcome("timeout", "", 0, "TimeoutExpired"),
           Outcome("failed", "", 0, "[Errno 8] Exec format error"),
           Outcome("failed", "", 0, "[Errno 12] Cannot allocate memory"),
           Outcome("chmod failed", "", 0, "PermissionError"),
           Outcome("missing", "", 0, "FileNotFoundError") }

\* the values of USE_SPEC_KIT: unset, on (in two spellings), off
EnvValues == {"", "true", "TRUE", "0"}

\* where the adapter stage fails, if anywhere, and the text of the exception
Faults ==
    { [at |-> "", error |-> ""], [at |-> "adapter", error |-> "spec-kit unavailable"],
      [at |-> "detect", error |-> "out of memory"], [at |-> "score", error |-> "out of memory"] }

\* the prompts of the calls followed statement by statement
TogglePrompts ==
    { Compose(<<"Login">>), Compose(<<"Blank", "Hashed">>), Compose(<<"Features", "Databases">>) }

\* what happens to the scanner script in those calls
ToggleOutcomes ==
    { Outcome("completed", "", 0, ""),
      Outcome("completed",
              "[SECURITY][BLOCKER][SEC_PLAINTEXT_PASSWORDS]\nPasswords stored in plain text\n"
              \o "Suggestion: Hash passwords\n", 2, ""),
      Outcome("timeout", "", 0, "TimeoutExpired"),
      Outcome("failed", "", 0, "[Errno 8] Exec format error"),
      Outcome("chmod failed", "", 0, "PermissionError"),
      Outcome("missing", "", 0, "FileNotFoundError") }

\* the calls that run at the same time
ConcurrentCalls ==
    { NewCall(p, o, [at |-> "", error |-> ""]) :
        p \in { Compose(<<"Login">>), Compose(<<"Blank", "Hashed">>) },
        o \in { Outcome("completed",
                        "[SECURITY][BLOCKER][SEC_PLAINTEXT_PASSWORDS]\nPasswords stored in plain text\n"
                        \o "Suggestion: Hash passwords\n", 2, ""),
                Outcome("timeout", "", 0, "TimeoutExpired") } }

(***************************************************************************)
(* Operations.                                                             *)
(***************************************************************************)
\* one call of analyze_prompt on the current request
AnalyzePrompt ==
    /\ pending
    /\ responses' = Append(responses, analyze_prompt(prompt, devspec_findings))
    /\ pending' = FALSE
    /\ UNCHANGED <<prompt, devspec_findings, filtered_findings, built, scored, parsed, run,
                   parser, env, calls, extracted, script_mode>>

\* a caller sends the next request
NextRequest ==
    /\ ~pending
    /\ Len(responses) < MaxCalls
    /\ \E p \in CallPrompts, s \in CallScans :
          /\ prompt' = p
          /\ devspec_findings' = s
    /\ pending' = TRUE
    /\ UNCHANGED <<responses, filtered_findings, built, scored, parsed, run,
                   parser, env, calls, extracted, script_mode>>

\* one run of filter_false_positives: on the scanner's findings first, then
\* on its own previous output
FilterFalsePositives ==
    /\ Len(filtered_findings) < MaxPasses
    /\ filtered_findings' =
          Append(filtered_findings,
                 filter_false_positives(prompt,
                     IF filtered_findings = <<>> THEN devspec_findings
                     ELSE filtered_findings[Len(filtered_findings)]))
    /\ UNCHANGED <<prompt, devspec_findings, pending, responses, built, scored, parsed, run,
                   parser, env, calls, extracted, script_mode>>

\* one direct call of build_guidance, at any risk level
BuildGuidance ==
    /\ built = <<>>
    /\ \E risk_level \in RiskLevels :
          LET result == build_guidance(prompt, devspec_findings, risk_level)
          IN  built' = <<[ prompt |-> prompt,
                          findings |-> devspec_findings,
                          risk_level |-> risk_level,
                          constraints_list |-> sorted(Constraints(devspec_findings, risk_level)),
                          guidance_items |-> result[1],
                          final_curated_prompt |-> result[2] ]>>
    /\ UNCHANGED <<prompt, devspec_findings, pending, responses, filtered_findings,
                   scored, parsed, run,
                   parser, env, calls, extracted, script_mode>>

\* one call of compute_spec_quality_score
ComputeSpecQualityScore ==
    /\ scored = <<>>
    /\ \E populated \in SUBSET Categories, n \in 1..MaxItems, w \in 0..MaxWarnings,
          prompt_text \in QualityTexts :
          LET structure == StructureOf(populated, n)
          IN  scored' = <<[ structure |-> structure,
                           warnings |-> Warnings(w),
                           prompt_text |-> prompt_text,
                           score |-> compute_spec_quality_score(structure, Warnings(w),
                                                                prompt_text) ]>>
    /\ UNCHANGED <<prompt, devspec_findings, pending, responses, filtered_findings,
                   built, parsed, run,
                   parser, env, calls, extracted, script_mode>>

\* one call of parse_devspec_output
ParseDevspecOutput ==
    /\ parsed = <<>>
    /\ \E elements \in SeqsUpTo(OutputElements, MaxBlocks) :
          LET output == RenderAll(elements)
          IN  parsed' = <<[ elements |-> elements,
                           output |-> output,
                           findings |-> parse_devspec_output(output) ]>>
    /\ UNCHANGED <<prompt, devspec_findings, pending, responses, filtered_findings,
                   built, scored, run,
                   parser, env, calls, extracted, script_mode>>

\* one call of analyze_prompt, the scanner run included: the exception of
\* run_dev_spec_kit ends the call without a response
AnalyzePromptWithScanner ==
    /\ pending
    /\ \E outcome \in ScannerOutcomes :
          LET returned == run_dev_spec_kit(outcome)
          IN  /\ run' = Append(run, [outcome |-> outcome, returned |-> returned])
              /\ devspec_findings' = returned.findings
              /\ responses' = IF returned.raised THEN responses
                              ELSE Append(responses, analyze_prompt(prompt, returned.findings))
    /\ pending' = FALSE
    /\ UNCHANGED <<prompt, filtered_findings, built, scored, parsed,
                   parser, env, calls, extracted, script_mode>>

\* one iteration of the loop of parse_devspec_output
ParseIteration ==
    /\ parser.i <= Len(parser.lines)
    /\ LET after == parse_iteration(parser.lines, parser.i, parser.findings)
       IN  parser' = [parser EXCEPT !.i = after.i, !.read = after.read,
                                    !.findings = after.findings]
    /\ UNCHANGED <<prompt, devspec_findings, pending, responses, filtered_findings,
                   built, scored, parsed, run, env, calls, extracted, script_mode>>

\* one call of extract_spec_structure; the values found for every category,
\* in the order in which the patterns found them, are kept beside the result
ExtractSpecStructure ==
    /\ extracted = <<>>
    /\ extracted' = <<[ prompt |-> prompt,
                        found |-> [c \in Categories |-> Matches(c, lower(prompt), 1)],
                        structure |-> extract_spec_structure(prompt) ]>>
    /\ UNCHANGED <<prompt, devspec_findings, pending, responses, filtered_findings,
                   built, scored, parsed, run, parser, env, calls, script_mode>>

\* call c reads the setting
ReadToggle(c) ==
    /\ calls[c].pc = "start"
    /\ calls' = [calls EXCEPT ![c] = read_toggle(calls[c], env)]
    /\ UNCHANGED <<prompt, devspec_findings, pending, responses, filtered_findings,
                   built, scored, parsed, run, parser, extracted, env, script_mode>>

\* call c goes through the adapter stage
AdapterStage(c) ==
    /\ calls[c].pc = "toggled"
    /\ calls' = [calls EXCEPT ![c] = adapter_stage(calls[c], env)]
    /\ UNCHANGED <<prompt, devspec_findings, pending, responses, filtered_findings,
                   built, scored, parsed, run, parser, extracted, env, script_mode>>

\* call c looks the script up and makes it executable
PrepareScript(c) ==
    /\ calls[c].pc = "adapted"
    /\ calls' = [calls EXCEPT ![c] = prepare_script(calls[c])]
    /\ script_mode' = IF prepare_script(calls[c]).pc = "prepared" THEN chmod(script_mode)
                      ELSE script_mode
    /\ UNCHANGED <<prompt, devspec_findings, pending, responses, filtered_findings,
                   built, scored, parsed, run, parser, extracted, env>>

\* call c runs the scanner and builds its response
RunScanner(c) ==
    /\ calls[c].pc = "prepared"
    /\ calls' = [calls EXCEPT ![c] = run_scanner(calls[c], script_mode)]
    /\ UNCHANGED <<prompt, devspec_findings, pending, responses, filtered_findings,
                   built, scored, parsed, run, parser, extracted, env, script_mode>>

\* the setting is changed from outside the calls
SetEnv ==
    /\ \E value \in EnvValues \ {env} : env' = value
    /\ UNCHANGED <<prompt, devspec_findings, pending, responses, filtered_findings,
                   built, scored, parsed, run, parser, extracted, calls, script_mode>>

(***************************************************************************)
(* Specifications.                                                         *)
(***************************************************************************)
\* one analysis of any explored request
Init ==
    /\ prompt \in PromptsOf(RequestPhrases)
    /\ devspec_findings \in SeqsUpTo(ScannerFindings, MaxFindings)
    /\ pending = TRUE
    /\ responses = <<>>
    /\ filtered_findings = <<>>
    /\ built = <<>>
    /\ scored = <<>>
    /\ parsed = <<>>
    /\ run = <<>>
    /\ parser = <<>>
    /\ env = ""
    /\ calls = <<>>
    /\ extracted = <<>>
    /\ script_mode = "0755"

Next == AnalyzePrompt

Spec == Init /\ [][Next]_vars

\* successive analyses
InitCalls ==
    /\ prompt \in CallPrompts
    /\ devspec_findings \in CallScans
    /\ pending = TRUE
    /\ responses = <<>>
    /\ filtered_findings = <<>>
    /\ built = <<>>
    /\ scored = <<>>
    /\ parsed = <<>>
    /\ run = <<>>
    /\ parser = <<>>
    /\ env = ""
    /\ calls = <<>>
    /\ extracted = <<>>
    /\ script_mode = "0755"

NextCalls == AnalyzePrompt \/ NextRequest

SpecCalls == InitCalls /\ [][NextCalls]_vars

\* the suppressor alone, run on every scenario
InitFilter ==
    /\ \E s \in Scenarios :
          /\ prompt \in PromptsOf(s.phrases)
          /\ devspec_findings \in SeqsUpTo(ScenarioFindings(s), MaxFilterInput)
    /\ pending = FALSE
    /\ responses = <<>>
    /\ filtered_findings = <<>>
    /\ built = <<>>
    /\ scored = <<>>
    /\ parsed = <<>>
    /\ run = <<>>
    /\ parser = <<>>
    /\ env = ""
    /\ calls = <<>>
    /\ extracted = <<>>
    /\ script_mode = "0755"

NextFilter == FilterFalsePositives

SpecFilter == InitFilter /\ [][NextFilter]_vars

\* build_guidance alone, on every explored finding list at every risk level
InitGuidance ==
    /\ prompt \in GuidancePrompts
    /\ devspec_findings \in SeqsUpTo(GuidanceFindings, MaxGuidanceFindings)
    /\ pending = FALSE
    /\ responses = <<>>
    /\ filtered_findings = <<>>
    /\ built = <<>>
    /\ scored = <<>>
    /\ parsed = <<>>
    /\ run = <<>>
    /\ parser = <<>>
    /\ env = ""
    /\ calls = <<>>
    /\ extracted = <<>>
    /\ script_mode = "0755"

NextGuidance == BuildGuidance

SpecGuidance == InitGuidance /\ [][NextGuidance]_vars

\* compute_spec_quality_score alone
InitQuality ==
    /\ prompt = <<>>
    /\ devspec_findings = <<>>
    /\ pending = FALSE
    /\ responses = <<>>
    /\ filtered_findings = <<>>
    /\ built = <<>>
    /\ scored = <<>>
    /\ parsed = <<>>
    /\ run = <<>>
    /\ parser = <<>>
    /\ env = ""
    /\ calls = <<>>
    /\ extracted = <<>>
    /\ script_mode = "0755"

NextQuality == ComputeSpecQualityScore

SpecQuality == InitQuality /\ [][NextQuality]_vars

\* parse_devspec_output alone
InitParse ==
    /\ prompt = <<>>
    /\ devspec_findings = <<>>
    /\ pending = FALSE
    /\ responses = <<>>
    /\ filtered_findings = <<>>
    /\ built = <<>>
    /\ scored = <<>>
    /\ parsed = <<>>
    /\ run = <<>>
    /\ parser = <<>>
    /\ env = ""
    /\ calls = <<>>
    /\ extracted = <<>>
    /\ script_mode = "0755"

NextParse == ParseDevspecOutput

SpecParse == InitParse /\ [][NextParse]_vars

\* one analysis, the scanner run included
InitScan ==
    /\ prompt \in CallPrompts
    /\ devspec_findings = <<>>
    /\ pending = TRUE
    /\ responses = <<>>
    /\ filtered_findings = <<>>
    /\ built = <<>>
    /\ scored = <<>>
    /\ parsed = <<>>
    /\ run = <<>>
    /\ parser = <<>>
    /\ env = ""
    /\ calls = <<>>
    /\ extracted = <<>>
    /\ script_mode = "0755"

NextScan == AnalyzePromptWithScanner

SpecScan == InitScan /\ [][NextScan]_vars

\* parse_devspec_output followed iteration by iteration; the loop runs as
\* long as its condition holds
InitParseLoop ==
    /\ prompt = <<>>
    /\ devspec_findings = <<>>
    /\ pending = FALSE
    /\ responses = <<>>
    /\ filtered_findings = <<>>
    /\ built = <<>>
    /\ scored = <<>>
    /\ parsed = <<>>
    /\ run = <<>>
    /\ \E elements \in SeqsUpTo(LoopElements, MaxLoopBlocks) :
          parser = [ output |-> RenderAll(elements),
                     lines |-> split(str_strip(RenderAll(elements))),
                     i |-> 1, read |-> {}, findings |-> <<>> ]
    /\ env = ""
    /\ calls = <<>>
    /\ extracted = <<>>
    /\ script_mode = "0755"

NextParseLoop == ParseIteration

SpecParseLoop == InitParseLoop /\ [][NextParseLoop]_vars

\* extract_spec_structure alone
InitExtract ==
    /\ prompt \in PromptsOf(ExtractPhrases)
    /\ devspec_findings = <<>>
    /\ pending = FALSE
    /\ responses = <<>>
    /\ filtered_findings = <<>>
    /\ built = <<>>
    /\ scored = <<>>
    /\ parsed = <<>>
    /\ run = <<>>
    /\ parser = <<>>
    /\ env = ""
    /\ calls = <<>>
    /\ extracted = <<>>
    /\ script_mode = "0755"

NextExtract == ExtractSpecStructure

SpecExtract == InitExtract /\ [][NextExtract]_vars

\* one call of analyze_prompt followed statement by statement, with any
\* scanner outcome and any failure of the adapter stage, while the setting
\* may change
InitToggle ==
    /\ prompt = <<>>
    /\ devspec_findings = <<>>
    /\ pending = FALSE
    /\ responses = <<>>
    /\ filtered_findings = <<>>
    /\ built = <<>>
    /\ scored = <<>>
    /\ parsed = <<>>
    /\ run = <<>>
    /\ parser = <<>>
    /\ extracted = <<>>
    /\ env \in EnvValues
    /\ script_mode \in {"0644", "0755"}
    /\ \E p \in TogglePrompts, o \in ToggleOutcomes, f \in Faults : calls = <<NewCall(p, o, f)>>

NextToggle ==
    \/ ReadToggle(1)
    \/ AdapterStage(1)
    \/ PrepareScript(1)
    \/ RunScanner(1)
    \/ SetEnv

SpecToggle == InitToggle /\ [][NextToggle]_vars

\* calls that run at the same time, in every interleaving of their
\* statements; the script is not executable before the first of them
InitConcurrent ==
    /\ prompt = <<>>
    /\ devspec_findings = <<>>
    /\ pending = FALSE
    /\ responses = <<>>
    /\ filtered_findings = <<>>
    /\ built = <<>>
    /\ scored = <<>>
    /\ parsed = <<>>
    /\ run = <<>>
    /\ parser = <<>>
    /\ extracted = <<>>
    /\ env \in EnvValues
    /\ script_mode = "0644"
    /\ calls \in [1..MaxConcurrent -> ConcurrentCalls]

NextConcurrent ==
    \E c \in DOMAIN calls :
        \/ ReadToggle(c)
        \/ AdapterStage(c)
        \/ PrepareScript(c)
        \/ RunScanner(c)

SpecConcurrent == InitConcurrent /\ [][NextConcurrent]_vars

(***************************************************************************)
(* Properties.                                                             *)
(***************************************************************************)
Range(seq) == { seq[i] : i \in DOMAIN seq }

\* number of findings whose severity field is the given one
Count(findings, severity) == Cardinality({ i \in DOMAIN findings : findings[i].severity = severity })

C2_WarningThreshold ==
    \A k \in DOMAIN responses :
        LET r == responses[k]
        IN  (Count(r.devspec_findings, "BLOCKER") = 0 /\ Count(r.devspec_findings, "ERROR") = 0)
            => r.risk_level = (IF Count(r.devspec_findings, "WARNING") >= 3 THEN "Medium" ELSE "Low")

\* the severities present in a finding list
Severities(findings) == { findings[i].severity : i \in DOMAIN findings }

IsPrefix(p, t) == Len(p) <= Len(t) /\ SubSeq(t, 1, Len(p)) = p

\* n is o without its leading and trailing whitespace
Trimmed(o, n) ==
    \E i \in 1..(Len(o) + 1), j \in 0..Len(o) :
        /\ n = SubSeq(o, i, j)
        /\ \A k \in 1..(i - 1) : o[k] \in Whitespace
        /\ \A k \in (j + 1)..Len(o) : o[k] \in Whitespace
        /\ n # <<>> => (n[1] \notin Whitespace /\ n[Len(n)] \notin Whitespace)

\* C4 as claimed: the curated prompt starts with the caller's original prompt,
\* verbatim with its leading and trailing whitespace, followed by the "---"
\* section.
C4_OriginalPromptIsPrefix ==
    \A k \in DOMAIN responses :
        IsPrefix(responses[k].original_prompt \o <<"\n", "\n", "---", "\n">>,
                 responses[k].final_curated_prompt)

\* C4 as amended: the curated prompt starts with the caller's prompt stripped of
\* its leading and trailing whitespace, every other lexeme verbatim, followed
\* by the "---" section.
C4_NormalizedPromptIsPrefix ==
    \A k \in DOMAIN responses :
        /\ Trimmed(responses[k].original_prompt, responses[k].normalized_prompt)
        /\ IsPrefix(responses[k].normalized_prompt \o <<"\n", "\n", "---", "\n">>,
                    responses[k].final_curated_prompt)

\* C4 witness: a High-risk result for a prompt with leading whitespace and
\* mixed-case words.
C4_Witness ==
    \E k \in DOMAIN responses :
        /\ responses[k].original_prompt # <<>>
        /\ responses[k].original_prompt[1] \in Whitespace
        /\ "REST" \in Range(responses[k].normalized_prompt)
        /\ responses[k].risk_level = "High"

\* the suppressor has run at least once
Filtered == filtered_findings # <<>>

\* C5: filter_false_positives is idempotent for a fixed prompt: run on its own
\* output it returns exactly that output.
C5_Idempotent ==
    \A k \in DOMAIN filtered_findings : filtered_findings[k] = filtered_findings[1]

\* C5 witness: the suppressor run twice on findings of which it dropped some
\* and kept some.
C5_Witness ==
    /\ Len(filtered_findings) >= 2
    /\ filtered_findings[1] # devspec_findings
    /\ filtered_findings[1] # <<>>

\* the orders in which a finding list can be emitted
Orders(findings) ==
    { [i \in DOMAIN findings |-> findings[p[i]]] : p \in Permutations(DOMAIN findings) }

Occurs(seq, x) == Cardinality({ i \in DOMAIN seq : seq[i] = x })

SameMultiset(a, b) == \A x \in Range(a) \cup Range(b) : Occurs(a, x) = Occurs(b, x)

\* C6: whether a finding survives depends on the prompt and its code only:
\* every order of the input yields the same surviving multiset, a finding
\* survives among others exactly when it survives alone, and two findings with
\* the same code are both kept or both dropped whatever their severity and
\* message.
C6_PerCodeIndependent ==
    Filtered =>
        /\ \A q \in Orders(devspec_findings) :
              SameMultiset(filter_false_positives(prompt, q), filtered_findings[1])
        /\ filtered_findings[1] =
              SelectSeq(devspec_findings, LAMBDA f : filter_false_positives(prompt, <<f>>) = <<f>>)
        /\ \A i, j \in DOMAIN devspec_findings :
              devspec_findings[i].code = devspec_findings[j].code
              => (devspec_findings[i] \in Range(filtered_findings[1])
                  <=> devspec_findings[j] \in Range(filtered_findings[1]))

\* C6 witness: two findings of one code with different severities both
\* dropped, a finding of another code between them kept.
C6_Witness ==
    /\ Filtered
    /\ Len(devspec_findings) = 3
    /\ devspec_findings[1].code = devspec_findings[3].code
    /\ devspec_findings[1].severity # devspec_findings[3].severity
    /\ filtered_findings[1] = <<devspec_findings[2]>>

\* C7: a SEC_HARDCODED_SECRET finding is kept whenever the prompt contains the
\* contradicting pattern (a quoted value to use or to hardcode, a quoted secret
\* assignment), whichever positive evidence is present.
C7_ContradictionKeepsSecret ==
    (Filtered /\ re_search(re_recommends_hardcoding, TextOccurrences(lower(prompt))))
    => \A i \in DOMAIN devspec_findings :
          devspec_findings[i].code = "SEC_HARDCODED_SECRET"
          => devspec_findings[i] \in Range(filtered_findings[1])

\* the codes filter_false_positives has a rule for
HandledCodes ==
    { "SEC_HARDCODED_SECRET", "SEC_INSECURE_JWT_STORAGE", "SEC_PLAINTEXT_PASSWORDS",
      "SEC_DEBUG_EXPOSES_SECRETS", "SEC_MISSING_INPUT_VALIDATION", "SEC_WEAK_HASH_MD5",
      "SEC_NO_TLS_FOR_AUTH", "SEC_NO_AUTH_INTERNAL" }

Unhandled(findings) == SelectSeq(findings, LAMBDA f : f.code \notin HandledCodes)

\* C8: a finding whose code has no suppression rule is never removed, whatever
\* the prompt, and is in the output unchanged.
C8_UnknownCodesPass ==
    \A k \in DOMAIN filtered_findings :
        Unhandled(filtered_findings[k]) = Unhandled(devspec_findings)

\* C8 witness: the suppressor dropped a finding and the input held a finding
\* of a code without a rule.
C8_Witness ==
    /\ Filtered
    /\ Len(filtered_findings[1]) < Len(devspec_findings)
    /\ Unhandled(devspec_findings) # <<>>

\* the prompt names a password-hashing algorithm, in any case
HashingEvidence(text) ==
    \E i \in DOMAIN text :
        \E o \in Occurrences(Lower(text[i])) : o[1] \in {"bcrypt", "argon2", "pbkdf2", "scrypt"}

IsPlaintextPasswords(f) == f.code = "SEC_PLAINTEXT_PASSWORDS"

\* C9: when the prompt holds password-hashing evidence, no plaintext-password
\* finding is in the final findings, and the risk level is the one of the
\* same request without these findings, whatever else the scanner emitted.
C9_HashingRemovesPlaintext ==
    \A k \in DOMAIN responses :
        HashingEvidence(responses[k].original_prompt)
        => /\ \A f \in Range(responses[k].devspec_findings) : ~IsPlaintextPasswords(f)
           /\ responses[k].risk_level =
                 analyze_prompt(prompt, SelectSeq(devspec_findings,
                                                  LAMBDA f : ~IsPlaintextPasswords(f))).risk_level

\* C9 witness: hashing evidence in the prompt, a BLOCKER plaintext-password
\* finding emitted with other findings, and a result that is not High.
C9_Witness ==
    \E k \in DOMAIN responses :
        /\ HashingEvidence(responses[k].original_prompt)
        /\ \E f \in Range(devspec_findings) : IsPlaintextPasswords(f) /\ f.severity = "BLOCKER"
        /\ responses[k].devspec_findings # <<>>
        /\ responses[k].risk_level # "High"

RECURSIVE IsSubsequence(_, _)
IsSubsequence(a, b) ==
    IF a = <<>> THEN TRUE
    ELSE IF b = <<>> THEN FALSE
    ELSE IF Head(a) = Head(b) THEN IsSubsequence(Tail(a), Tail(b))
    ELSE IsSubsequence(a, Tail(b))

\* C10: the output of filter_false_positives is a sub-sequence of its input:
\* every output finding is an input finding with its five fields unchanged,
\* in the input's order, none added or duplicated.
C10_OutputIsSubsequence ==
    \A k \in DOMAIN filtered_findings : IsSubsequence(filtered_findings[k], devspec_findings)

\* C10 witness: of three findings, one dropped and two different ones kept.
C10_Witness ==
    /\ Filtered
    /\ Len(devspec_findings) = 3
    /\ Len(filtered_findings[1]) = 2
    /\ filtered_findings[1][1] # filtered_findings[1][2]


(***************************************************************************)
(* Guidance and curated prompt.                                            *)
(***************************************************************************)
\* number of lines of the curated prompt that hold `sub`
Rendered(curated, sub) == Cardinality({ i \in DOMAIN curated : Contains(curated[i], sub) })

\* C11: at Medium or High risk every constraint generated from the surviving
\* findings is rendered exactly once in the curated prompt, and a High-risk
\* curated prompt holds an 'IMPORTANT SECURITY CONSTRAINTS' block.
C11_ConstraintsRendered ==
    \A k \in DOMAIN responses :
        LET r == responses[k]
        IN  r.risk_level \in {"Medium", "High"} =>
              /\ \A c \in Constraints(r.devspec_findings, r.risk_level) :
                    Rendered(r.final_curated_prompt, c) = 1
              /\ r.risk_level = "High" =>
                    Rendered(r.final_curated_prompt, "IMPORTANT SECURITY CONSTRAINTS") >= 1

\* a direct call of build_guidance has returned
Built == built # <<>>

\* C12: build_guidance generates constraints only at Medium or High risk (none
\* at Low, whatever the findings); the constraint list has no duplicates and
\* is in ascending lexicographic order, whatever the number and the order of
\* the findings that map to the same constraint.
C12_ConstraintsSortedNoDuplicates ==
    \A k \in DOMAIN built :
        LET b == built[k]
            cl == b.constraints_list
        IN  /\ b.risk_level = "Low" => cl = <<>>
            /\ b.risk_level \notin {"Medium", "High"} => cl = <<>>
            /\ Cardinality(Range(cl)) = Len(cl)
            /\ \A i \in 1..(Len(cl) - 1) : StrLess(cl[i], cl[i + 1])
            /\ b.risk_level \in {"Medium", "High"} =>
                  Range(cl) = UNION { ConstraintsFor(b.findings[i].code) : i \in DOMAIN b.findings }

\* two findings that map to the same constraints came after one whose
\* constraint sorts last, at High risk
C12_Witness ==
    /\ Built
    /\ built[1].risk_level = "High"
    /\ Len(built[1].findings) = 3
    /\ built[1].findings[1].code = "SEC_HTTP_FOR_AUTH"
    /\ built[1].findings[2].code = "SEC_SECRETS_IN_CONFIG_FILE"
    /\ built[1].findings[3].code = "SEC_HARDCODED_SECRET"
    /\ Len(built[1].constraints_list) = 3

\* the findings whose code has the ARCH_ prefix, and the other ones
ArchFindings(findings) == SelectSeq(findings, LAMBDA f : startswith(f.code, "ARCH_"))

OtherFindings(findings) == SelectSeq(findings, LAMBDA f : ~startswith(f.code, "ARCH_"))

\* C13: at every risk level every finding whose code has the ARCH_ prefix
\* contributes a 'Clarify Technology Stack' guidance item and no constraint.
C13_ArchContributesGuidance ==
    \A k \in DOMAIN built :
        LET b == built[k]
            clarify == { i \in DOMAIN b.guidance_items :
                            b.guidance_items[i].title = "Clarify Technology Stack" }
        IN  /\ Cardinality(clarify) = Len(ArchFindings(b.findings))
            /\ Range(b.constraints_list) = Constraints(OtherFindings(b.findings), b.risk_level)

\* what the curated prompt adds after the prompt and the rule
Section(b) ==
    SubSeq(b.final_curated_prompt, Len(b.prompt) + Len(Rule) + 1, Len(b.final_curated_prompt))

\* C14: build_curated_prompt selects its template by the first matching row:
\* (1) Low with at most 2 warnings: minimal note (the 'no issues' line with 0
\* warnings, the bullet list of the warning messages with 1-2); (2) High with
\* a blocker: 'CRITICAL SECURITY ISSUES'; (3) Medium with 0 blockers and at
\* least 3 warnings: 'Quality and Design Concerns'; (4) Medium with an error:
\* 'Security Issues Detected'; (5) Medium otherwise: listing of every
\* finding; (6) anything else: generic note naming the risk level.
C14_TemplateByFirstMatch ==
    \A k \in DOMAIN built :
        LET b == built[k]
            nb == Count(b.findings, "BLOCKER")
            ne == Count(b.findings, "ERROR")
            nw == Count(b.findings, "WARNING")
            ws == SelectSeq(b.findings, LAMBDA f : f.severity = "WARNING")
            section == Section(b)
        IN  /\ SubSeq(b.final_curated_prompt, 1, Len(b.prompt)) = b.prompt
            /\ IF b.risk_level = "Low" /\ nw <= 2 THEN
                   IF nw = 0
                   THEN /\ section[1] = "SECURITY ANALYSIS: Low Risk"
                        /\ Contains(section[2], "No significant security issues detected")
                   ELSE /\ section[1] = "Notes:"
                        /\ SubSeq(section, 2, nw + 1) = [i \in 1..nw |-> "* " \o ws[i].message]
                        /\ section[nw + 2] = "SECURITY ANALYSIS: Low Risk"
               ELSE IF b.risk_level = "High" /\ nb >= 1 THEN
                   section[1] = "CRITICAL SECURITY ISSUES"
               ELSE IF b.risk_level = "Medium" /\ nb = 0 /\ nw >= 3 THEN
                   section[1] = "Quality and Design Concerns:"
               ELSE IF b.risk_level = "Medium" /\ ne >= 1 THEN
                   section[1] = "Security Issues Detected:"
               ELSE IF b.risk_level = "Medium" THEN
                   /\ section[1] = "Security and Quality Issues:"
                   /\ SubSeq(section, 2, Len(b.findings) + 1) =
                         [i \in 1..Len(b.findings) |->
                             "* " \o b.findings[i].code \o ": " \o b.findings[i].message]
               ELSE
                   /\ section[1] = "SECURITY ANALYSIS: " \o b.risk_level \o " Risk"
                   /\ Contains(section[2], "Review the detailed findings")

\* Medium risk, no blocker, an error and three warnings: rows (3) and (4)
\* both match and row (3) was taken
C14_Witness ==
    /\ Built
    /\ built[1].risk_level = "Medium"
    /\ Count(built[1].findings, "BLOCKER") = 0
    /\ Count(built[1].findings, "ERROR") = 1
    /\ Count(built[1].findings, "WARNING") = 3
    /\ Section(built[1])[1] = "Quality and Design Concerns:"

\* the titles of a guidance list
Titles(items) == [i \in DOMAIN items |-> items[i].title]

\* C15: the guidance list is never empty; with zero surviving findings it is
\* exactly one 'No Security Issues Detected' item (risk Low, no constraint
\* generated); with one or more surviving findings its first item is
\* 'Security Analysis Summary' and it holds no 'No Security Issues Detected'.
C15_GuidanceShape ==
    \A k \in DOMAIN responses :
        LET r == responses[k]
            titles == Titles(r.guidance)
        IN  /\ r.guidance # <<>>
            /\ IF r.devspec_findings = <<>>
               THEN /\ titles = <<"No Security Issues Detected">>
                    /\ r.risk_level = "Low"
                    /\ Constraints(r.devspec_findings, r.risk_level) = {}
               ELSE /\ titles[1] = "Security Analysis Summary"
                    /\ "No Security Issues Detected" \notin Range(titles)

\* one analysis ended with no surviving finding, another with some
C15_Witness ==
    \E i, j \in DOMAIN responses :
        /\ responses[i].devspec_findings = <<>>
        /\ responses[j].devspec_findings # <<>>
        /\ Len(responses[j].guidance) >= 3


(***************************************************************************)
(* Quality score.                                                          *)
(***************************************************************************)
Scored == scored # <<>>

\* the number of items of a structure, and its non-empty categories
ItemsIn(structure) ==
    Len(structure.features) + Len(structure.entities) + Len(structure.flows)
    + Len(structure.configuration) + Len(structure.error_handling) + Len(structure.testing)
    + Len(structure.logging) + Len(structure.authentication) + Len(structure.data_storage)

NonEmpty(structure, names) == { c \in names : Len(structure[c]) > 0 }

CriticalNames == {"features", "entities", "flows", "error_handling", "testing"}

ImportantNames == {"configuration", "logging", "authentication", "data_storage"}

\* C16: compute_spec_quality_score returns an integer s with 0 <= s <= 95 for
\* every structure, warning list and prompt text; no value above 95 (and so
\* never 100) is returned.
C16_ScoreWithinBounds ==
    \A k \in DOMAIN scored :
        /\ scored[k].score \in Int
        /\ 0 <= scored[k].score
        /\ scored[k].score <= 95
        /\ scored[k].score # 100

\* a structure with everything populated, scored without warnings on a text
\* that earns every bonus: the weighted sum is far above the ceiling
C16_Witness ==
    /\ Scored
    /\ NonEmpty(scored[1].structure, Categories) = Categories
    /\ ItemsIn(scored[1].structure) >= 15
    /\ scored[1].warnings = <<>>
    /\ Len(scored[1].prompt_text) > 10
    /\ scored[1].score = 95

\* C17: whatever the warning lists and the prompt texts, a structure with all
\* nine categories non-empty and at least 15 items scores strictly higher
\* than a structure with all nine categories empty.
C17_FullScoresAboveEmpty ==
    \A k \in DOMAIN scored :
        LET full == scored[k]
        IN  (NonEmpty(full.structure, Categories) = Categories /\ ItemsIn(full.structure) >= 15)
            => \A w \in 0..MaxWarnings, prompt_text \in QualityTexts :
                  full.score > compute_spec_quality_score(StructureOf({}, 1), Warnings(w),
                                                          prompt_text)

\* a full structure scored with the longest warning list on an empty text
C17_Witness ==
    /\ Scored
    /\ NonEmpty(scored[1].structure, Categories) = Categories
    /\ ItemsIn(scored[1].structure) >= 15
    /\ Len(scored[1].warnings) = MaxWarnings
    /\ scored[1].prompt_text = <<>>

\* C18: the score is the clamp to [0,95] of 44 + 7 per non-empty critical
\* category + 4 per non-empty important category - min(3 x warnings, 15)
\* + 10 if all five critical categories are non-empty + the item-count tier
\* (>=15: 20, >=10: 14, >=6: 7, else 0) + the technology tier (>=4 keywords:
\* 18, 3: 12, 2: 6, else 0) + the three independent phrase bonuses (6, 4, 3).
C18_ReferenceWeightedSum ==
    \A k \in DOMAIN scored :
        LET c == scored[k]
            critical == Cardinality(NonEmpty(c.structure, CriticalNames))
            important == Cardinality(NonEmpty(c.structure, ImportantNames))
            items == ItemsIn(c.structure)
            occ == TextOccurrences(lower(c.prompt_text))
            keywords == tech_count(occ)
            penalty == IF 3 * Len(c.warnings) < 15 THEN 3 * Len(c.warnings) ELSE 15
            sum == 44 + 7 * critical + 4 * important - penalty
                   + (IF critical = 5 THEN 10 ELSE 0)
                   + (CASE items >= 15 -> 20 [] items \in 10..14 -> 14
                        [] items \in 6..9 -> 7 [] OTHER -> 0)
                   + (CASE keywords >= 4 -> 18 [] keywords = 3 -> 12
                        [] keywords = 2 -> 6 [] OTHER -> 0)
                   + (IF re_search(re_detailed_test_suite, occ) THEN 6 ELSE 0)
                   + (IF re_search(re_detailed_logging, occ) THEN 4 ELSE 0)
                   + (IF re_search(re_error_handling, occ) THEN 3 ELSE 0)
        IN  c.score = (IF sum < 0 THEN 0 ELSE IF sum > 95 THEN 95 ELSE sum)

\* a score below the ceiling made of every kind of term: some critical and
\* important categories, the middle item tier, a capped penalty, three
\* keywords and no phrase bonus
C18_Witness ==
    /\ Scored
    /\ Cardinality(NonEmpty(scored[1].structure, CriticalNames)) = 3
    /\ Cardinality(NonEmpty(scored[1].structure, ImportantNames)) = 2
    /\ ItemsIn(scored[1].structure) = 10
    /\ Len(scored[1].warnings) = 6
    /\ tech_count(TextOccurrences(lower(scored[1].prompt_text))) = 3
    /\ scored[1].score = 44 + 21 + 8 - 15 + 14 + 12


(***************************************************************************)
(* Scanner output.                                                         *)
(***************************************************************************)
\* the finding blocks of an output, in order
Blocks(elements) == SelectSeq(elements, LAMBDA e : ~e.stray)

\* C19: on an output made of consecutive finding blocks (tag line, message
\* line, optional Suggestion line), parse_devspec_output returns exactly one
\* finding per tag line, in input order, with the code, severity and message
\* of its block, with or without Suggestion lines and with or without blank
\* lines between the blocks; other lines are skipped.
C19_OneFindingPerTagLine ==
    \A k \in DOMAIN parsed :
        LET blocks == Blocks(parsed[k].elements)
            findings == parsed[k].findings
        IN  /\ Len(findings) = Len(blocks)
            /\ \A i \in DOMAIN blocks :
                  i \in DOMAIN findings =>
                     /\ findings[i].code = blocks[i].code
                     /\ findings[i].severity = blocks[i].severity
                     /\ findings[i].message = blocks[i].message


\* C20: when the scanner invocation times out or fails at run time,
\* run_dev_spec_kit returns an empty finding list, exit code -1 and a raw
\* output beginning 'ERROR:', no exception propagates, and analyze_prompt
\* still returns a complete result (risk level, guidance, curated prompt).
C20_ScannerFailureDegrades ==
    \A k \in DOMAIN run :
        run[k].outcome.kind \in {"timeout", "failed"} =>
            /\ ~run[k].returned.raised
            /\ run[k].returned.findings = <<>>
            /\ run[k].returned.exit_code = -1
            /\ startswith(run[k].returned.raw_output, "ERROR:")
            /\ Len(responses) = Len(run)
            /\ responses[k].risk_level \in RiskLevels
            /\ responses[k].guidance # <<>>
            /\ IsPrefix(responses[k].normalized_prompt, responses[k].final_curated_prompt)
            /\ Len(responses[k].final_curated_prompt) > Len(responses[k].normalized_prompt)

\* subprocess.run failed with an error, and the analysis went on to its result
C20_Witness ==
    /\ run # <<>>
    /\ run[1].outcome.kind = "failed"
    /\ run[1].returned.raw_output = "ERROR: [Errno 8] Exec format error"
    /\ Len(responses) = 1


\* C27: parse_devspec_output terminates on every finite input: every
\* iteration of its loop moves the line index strictly forward and reads only
\* lines of the input, a tag line that is the last line, or that has only a
\* message line after it, still yields a finding (with an empty message
\* and/or an empty suggestion); the index never passes the end of the input
\* by more than one block, so the loop runs a bounded number of times.
TagAt(lines, i) == i \in DOMAIN lines /\ re_match_tag(str_strip(lines[i])).matched

C27_IterationAdvances ==
    /\ parser'.i > parser.i
    /\ parser'.i <= Len(parser.lines) + 3
    /\ parser'.read \subseteq DOMAIN parser.lines
    /\ TagAt(parser.lines, parser.i) =>
          /\ Len(parser'.findings) = Len(parser.findings) + 1
          /\ parser.i = Len(parser.lines) =>
                /\ parser'.findings[Len(parser'.findings)].message = ""
                /\ parser'.findings[Len(parser'.findings)].suggestion = ""
          /\ parser.i + 1 = Len(parser.lines) =>
                parser'.findings[Len(parser'.findings)].suggestion = ""

C28_MediumListsErrors ==
    \A k \in DOMAIN responses :
        LET r == responses[k]
        IN  r.risk_level = "Medium" =>
               \A i \in DOMAIN r.devspec_findings :
                   r.devspec_findings[i].severity = "ERROR" =>
                      /\ Rendered(r.final_curated_prompt, r.devspec_findings[i].code) >= 1
                      /\ Rendered(r.final_curated_prompt, r.devspec_findings[i].message) >= 1

\* a result without findings, with the 'No Security Issues Detected' item and
\* the 'No significant security issues detected' note
ReportsNoIssues(r) ==
    /\ r.devspec_findings = <<>>
    /\ r.risk_level = "Low"
    /\ \E i \in DOMAIN r.guidance : r.guidance[i].title = "No Security Issues Detected"
    /\ Rendered(r.final_curated_prompt, "No significant security issues detected") >= 1

\* C29: a result that reports no issues is produced only when the scanner
\* ran to completion: a timeout or a run-time failure of the scanner is never
\* reported as a clean Low-risk analysis.
C29_CleanOnlyAfterCompletedScan ==
    \A k \in DOMAIN responses :
        (k \in DOMAIN run /\ ReportsNoIssues(responses[k])) =>
            run[k].outcome.kind = "completed"

\* C30: through analyze_prompt the Medium fallback template ('Security and
\* Quality Issues:') is never produced, High risk always yields the
\* 'CRITICAL SECURITY ISSUES' template, and the generic fallback note is
\* produced exactly when the risk is Low with 3 or more WARNING findings.
C30_TemplatesThroughAnalyzePrompt ==
    \A k \in DOMAIN responses :
        LET r == responses[k]
            section == SubSeq(r.final_curated_prompt,
                              Len(r.normalized_prompt) + Len(Rule) + 1,
                              Len(r.final_curated_prompt))
            generic == /\ section[1] = "SECURITY ANALYSIS: " \o r.risk_level \o " Risk"
                       /\ Contains(section[2], "Review the detailed findings")
        IN  /\ Rendered(r.final_curated_prompt, "Security and Quality Issues:") = 0
            /\ r.risk_level = "High" => section[1] = "CRITICAL SECURITY ISSUES"
            /\ generic <=> (r.risk_level = "Low" /\ Count(r.devspec_findings, "WARNING") >= 3)

\* a Low result with three surviving warnings and the generic note
C30_Witness ==
    \E k \in DOMAIN responses :
        /\ responses[k].risk_level = "Low"
        /\ Count(responses[k].devspec_findings, "WARNING") = 3
        /\ Rendered(responses[k].final_curated_prompt, "Review the detailed findings") = 1


\* C21: analyze_prompt fails to return a result only when the scanner script
\* is missing: after every other failure (a run-time error or a timeout of
\* the scanner, a failure while the script is prepared for execution) a
\* result is returned.
C21_OnlyMissingScriptIsFatal ==
    \A k \in DOMAIN run :
        /\ run[k].returned.raised => run[k].outcome.kind = "missing"
        /\ run[k].outcome.kind # "missing" => k \in DOMAIN responses


(***************************************************************************)
(* Structure extraction.                                                   *)
(***************************************************************************)
NoDuplicates(seq) == Cardinality(Range(seq)) = Len(seq)

\* index of the first occurrence of a value in a sequence that holds it
FirstIndex(seq, x) == CHOOSE i \in DOMAIN seq : seq[i] = x /\ \A j \in 1..(i - 1) : seq[j] # x

\* the entries are values of `seen`, in the order in which `seen` first has them
FirstSeenOrder(entries, seen) ==
    /\ Range(entries) \subseteq Range(seen)
    /\ \A i, j \in DOMAIN entries :
          i < j => FirstIndex(seen, entries[i]) < FirstIndex(seen, entries[j])

\* the cap of a category
CapOf(category) == IF category \in {"error_handling", "testing", "logging"} THEN 5 ELSE 10

\* the values found for a category that the code keeps: features of 6 to 99
\* characters
Kept(e, category) ==
    IF category = "features"
    THEN SelectSeq(e.found[category], LAMBDA f : Len(f) > 5 /\ Len(f) < 100)
    ELSE e.found[category]

Returned == { c \in DOMAIN calls : calls[c].pc = "returned" }

\* the security part of a response
SecurityPart(r) ==
    [ risk_level |-> r.risk_level, devspec_findings |-> r.devspec_findings,
      has_blockers |-> r.has_blockers, has_errors |-> r.has_errors,
      guidance |-> r.guidance, final_curated_prompt |-> r.final_curated_prompt ]

\* C22: for a fixed prompt and a fixed scanner output the security part of
\* the result (risk_level, devspec_findings, has_blockers, has_errors,
\* guidance, final_curated_prompt) is the same whether the toggle is on or
\* off, and the scanner stage runs in both cases: the security part is the
\* one obtained from the prompt and the scanner output alone, and the raw
\* output and exit code in the result are the scanner's.
C22_SecurityPartIgnoresToggle ==
    \A c \in Returned :
        LET r == calls[c].response[1]
            scanned == run_dev_spec_kit(calls[c].scanner)
        IN  /\ SecurityPart(r) = SecurityPart(analyze_prompt(calls[c].prompt, scanned.findings))
            /\ r.devspec_raw_output = scanned.raw_output
            /\ r.exit_code = scanned.exit_code

\* a High-risk result of a call in which the adapter stage ran
C22_Witness ==
    \E c \in Returned :
        /\ calls[c].response[1].spec_kit_enabled
        /\ calls[c].response[1].spec_kit_success = Some(TRUE)
        /\ calls[c].response[1].risk_level = "High"
        /\ calls[c].response[1].devspec_findings # <<>>

\* C23: when the adapter stage fails at any point (adapter call, missing-area
\* detection, quality scoring) the failure is recovered and the result has
\* spec_kit_success false and every structure/quality field at its disabled
\* default: spec_kit_structure null, spec_quality_warnings empty,
\* spec_quality_score null; the scanner-based fields are unaffected.
C23_AdapterFailureResetsFields ==
    \A c \in Returned :
        LET r == calls[c].response[1]
        IN  (r.spec_kit_enabled /\ r.spec_kit_success # None /\ calls[c].fault.at # "") =>
               /\ r.spec_kit_success = Some(FALSE)
               /\ r.spec_kit_structure = None
               /\ r.spec_quality_warnings = <<>>
               /\ r.spec_quality_score = None
               /\ SecurityPart(r) =
                     SecurityPart(analyze_prompt(calls[c].prompt,
                                                 run_dev_spec_kit(calls[c].scanner).findings))

\* C24: every result with spec_kit_enabled true has spec_kit_success and
\* spec_kit_raw_output not null, and every result with spec_kit_enabled false
\* has spec_kit_success, spec_kit_raw_output, spec_kit_summary,
\* spec_kit_structure and spec_quality_score all null, even if the setting
\* changes while the call is in progress.
C24_EnabledMeansAdapterRan ==
    \A c \in Returned :
        LET r == calls[c].response[1]
        IN  IF r.spec_kit_enabled
            THEN r.spec_kit_success # None /\ r.spec_kit_raw_output # None
            ELSE /\ r.spec_kit_success = None
                 /\ r.spec_kit_raw_output = None
                 /\ r.spec_kit_summary = None
                 /\ r.spec_kit_structure = None
                 /\ r.spec_quality_score = None

\* the frame a call ends with when it runs alone, the script not executable
\* before it
Alone(frame, value) ==
    LET prepared == prepare_script(adapter_stage(read_toggle(frame, value), value))
    IN  IF prepared.pc = "raised" THEN prepared ELSE run_scanner(prepared, chmod("0644"))

\* the frame a call was entered with
Entered(frame) == NewCall(frame.prompt, frame.scanner, frame.fault)

\* every finished call has the result of running alone
ResultsAsAlone ==
    \A c \in DOMAIN calls :
        calls[c].pc \in {"returned", "raised"} => calls[c] = Alone(Entered(calls[c]), env)

\* the calls that have made the script executable
Prepared == { c \in DOMAIN calls : calls[c].pc \in {"prepared", "returned"} }

====
